---- MODULE Spec2Model ----
(***************************************************************************)
(* Model of the GitHub MCP server of src/github_mcpserver.py and of its    *)
(* reduced variant src/github_mcpserver_fixed.py.                          *)
(*                                                                         *)
(*   - push_project (invoke_tool): repository provisioning, directory      *)
(*     walk, per-file update-or-create loop with the rate-limit retry,     *)
(*     and the response returned to the caller; one action per             *)
(*     collaborator call (get_repo, create_repo, get_contents,             *)
(*     update_file, create_file) and one per local step.                   *)
(*   - parse_prompt_for_tool_calls: the regular expressions of the         *)
(*     extractor, matched character by character with Python's            *)
(*     backtracking order (leftmost match, greedy/lazy priorities).        *)
(*                                                                         *)
(* Lines 632-660 of src/github_mcpserver.py are read with the statement    *)
(* boundaries their indentation and the except clauses imply (two          *)
(* statements are fused on line 636 and on line 645).                      *)
(***************************************************************************)
EXTENDS Integers, Sequences, FiniteSets, TLC

VARIABLES
    variant,          \* "main" (github_mcpserver.py) or "fixed" (github_mcpserver_fixed.py)
    req,              \* inputs of the push_project invocation
    root,             \* components of project_path
    project,          \* files below project_path, in rglob order
    repoExists,       \* collaborator: the target repository exists
    existing,         \* collaborator: relative paths present on the branch
    pc,               \* position of the push handler
    repoCreated,      \* user.create_repo was called and succeeded
    files_to_upload,  \* main: list of relative paths to upload
    skipped_files,    \* main: skipped_files, fixed: failed_files
    success_files,    \* fixed: success_files, main: the "Updated"/"Created" log lines
    idx,              \* index of the current entry
    attempt,          \* main: value of the loop variable `attempt`
    attempted,        \* relative paths whose loop body has started
    fetchCalls,       \* number of get_contents calls per relative path
    updateCalls,      \* number of update_file calls per relative path
    createCalls,      \* number of create_file calls per relative path
    rlAttempts,       \* number of attempts of a path that were answered RateLimited
    sleeps,           \* seconds spent in asyncio.sleep per relative path
    faults,           \* number of failing collaborator answers so far
    response,         \* what the caller receives
    tool,             \* invocation.tool
    inp,              \* inputs of an invocation of a tool other than push_project
    apiLog,           \* collaborator calls other than the per-file calls of a push
    sizeRejectAt,     \* number of collaborator calls issued when content over the
                      \* ceiling was detected, -1 while none was
    file_sha,         \* push: file.sha of the last get_contents result
    recentCalls,      \* push: the last two per-file collaborator calls
    prompt,           \* extractor: the prompt text
    xpc,              \* extractor: "idle", "ready" or "done"
    tool_calls,       \* extractor: the returned list
    caught,           \* extractor: the except clause of line 407 ran
    raised            \* extractor: an exception left the function

pushVars == <<variant, req, root, project, repoExists, existing, pc, repoCreated,
              files_to_upload, skipped_files, success_files, idx, attempt,
              attempted, fetchCalls, updateCalls, createCalls, rlAttempts,
              sleeps, faults, response, tool, inp, apiLog, sizeRejectAt,
              file_sha, recentCalls>>
extractVars == <<prompt, xpc, tool_calls, caught, raised>>
vars == <<pushVars, extractVars>>

(***************************************************************************)
(* Bounds                                                                  *)
(***************************************************************************)
MaxFiles == 3        \* files in the project directory
MaxFaults == 3       \* failing collaborator answers during one push

(***************************************************************************)
(* Program constants                                                       *)
(***************************************************************************)
MAX_CONTENT_SIZE == 100000000
MaxAttempts == 3
BackoffSeconds == 10

ignore_patterns == {".git", "__pycache__", ".venv", ".env", "node_modules"}
fixed_ignore_patterns == {".git", "__pycache__", ".env", "node_modules", ".pytest_cache"}

(***************************************************************************)
(* The local file system: candidate files of a project directory          *)
(***************************************************************************)
FilePool == <<
    [parts |-> <<"a.txt">>, size |-> 10, readable |-> TRUE],
    [parts |-> <<"src", "b.py">>, size |-> 20, readable |-> TRUE],
    [parts |-> <<".git", "config">>, size |-> 5, readable |-> TRUE],
    [parts |-> <<".venv", "lib.py">>, size |-> 30, readable |-> TRUE],
    [parts |-> <<"big.bin">>, size |-> 100000001, readable |-> TRUE],
    [parts |-> <<"locked.key">>, size |-> 7, readable |-> FALSE] >>

AllPaths == {FilePool[i].parts : i \in 1..Len(FilePool)}

Roots == {<<"home", "proj">>, <<"home", ".venv", "proj">>}

RECURSIVE Pick(_, _)
\* the files of FilePool whose index is in S, in pool order
Pick(S, i) ==
    IF i > Len(FilePool) THEN <<>>
    ELSE (IF i \in S THEN <<FilePool[i]>> ELSE <<>>) \o Pick(S, i + 1)

Projects == {Pick(S, 1) : S \in {T \in SUBSET (1..Len(FilePool)) : Cardinality(T) <= MaxFiles}}

Range(s) == {s[i] : i \in 1..Len(s)}

\* file_path.parts of a file found by project_path.rglob('*')
FullParts(rt, f) == rt \o f.parts

\* main, line 614: any(p in file_path.parts for p in ignore_patterns)
Ignored(rt, f) == \E p \in ignore_patterns : p \in Range(FullParts(rt, f))

\* fixed, line 96
FixedIgnored(rt, f) == \E p \in fixed_ignore_patterns : p \in Range(FullParts(rt, f))


(***************************************************************************)
(* Responses and the exception handlers of invoke_tool                     *)
(***************************************************************************)
NoResponse == [status |-> "none", code |-> 0, detail |-> <<>>, reported |-> <<>>]

\* an HTTPException(status_code, detail); `reported` is the skipped-file list
\* formatted into the detail text
HTTPError(c, d, rep) == [status |-> "error", code |-> c, detail |-> d, reported |-> rep]

\* main, lines 667-670: both handlers re-raise as a 500 and append
\* "Skipped files: {skipped_files}"
InnerHandler(kind, d, skipped) ==
    HTTPError(500, <<IF kind = "github" THEN "GitHub API error" ELSE "Error">> \o d, skipped)

\* main, lines 675-678: `except Exception` also catches the HTTPExceptions
\* raised in the try body and re-raises them as 500 "Server error: {str(e)}"
OuterHandler(e) == HTTPError(500, <<"Server error">> \o e.detail, e.reported)

\* fixed, lines 143-144 and 149-150
FixedInnerHandler(d) == HTTPError(500, <<"Error pushing project">> \o d, <<>>)
FixedOuterHandler(e) == HTTPError(500, e.detail, e.reported)

(***************************************************************************)
(* Directory walk of the main variant, lines 609-625                       *)
(***************************************************************************)
RECURSIVE WalkUpload(_, _)
WalkUpload(rt, files) ==
    IF files = <<>> THEN <<>>
    ELSE LET f == Head(files) IN
         (IF ~Ignored(rt, f) /\ f.readable /\ f.size <= MAX_CONTENT_SIZE
          THEN <<f.parts>> ELSE <<>>) \o WalkUpload(rt, Tail(files))

RECURSIVE WalkSkipped(_, _)
WalkSkipped(rt, files) ==
    IF files = <<>> THEN <<>>
    ELSE LET f == Head(files) IN
         (IF Ignored(rt, f) THEN <<>>
          ELSE IF ~f.readable THEN <<[path |-> f.parts, reason |-> "read"]>>
          ELSE IF f.size > MAX_CONTENT_SIZE THEN <<[path |-> f.parts, reason |-> "size"]>>
          ELSE <<>>) \o WalkSkipped(rt, Tail(files))

\* line 619: the walk reaches the size test for this file and it is too large
TooLarge(rt, f) == ~Ignored(rt, f) /\ f.readable /\ f.size > MAX_CONTENT_SIZE

(***************************************************************************)
(* The collaborator                                                        *)
(***************************************************************************)
FaultAllowed == faults < MaxFaults

RepoErrors == {"RateLimited", "Transient"}
GetRepoAnswers ==
    {IF repoExists THEN "ok" ELSE "NotFound"} \cup (IF FaultAllowed THEN RepoErrors ELSE {})
CreateRepoAnswers == {"ok"} \cup (IF FaultAllowed THEN RepoErrors ELSE {})

\* repo.get_contents(path): 404 when the path is absent is the truthful
\* answer, not a fault
FetchAnswers(p) ==
    {IF p \in existing THEN "Found" ELSE "NotFound"}
        \cup (IF FaultAllowed THEN {"RateLimited", "Transient"} ELSE {})
WriteAnswers ==
    {"ok"} \cup (IF FaultAllowed THEN {"NotFound", "RateLimited", "Transient"} ELSE {})

Bump(f, p) == [f EXCEPT ![p] = @ + 1]

(***************************************************************************)
(* push_project, initial state                                             *)
(***************************************************************************)
\* branch is invocation.inputs.get("branch", "main") (main, line 587); the
\* fixed variant reads no branch input
Requests == {
    [repo_name |-> TRUE, project_path |-> TRUE, isdir |-> TRUE, branch |-> "main"],
    [repo_name |-> TRUE, project_path |-> TRUE, isdir |-> TRUE, branch |-> "dev"],
    [repo_name |-> FALSE, project_path |-> TRUE, isdir |-> TRUE, branch |-> "main"],
    [repo_name |-> TRUE, project_path |-> FALSE, isdir |-> FALSE, branch |-> "main"],
    [repo_name |-> TRUE, project_path |-> TRUE, isdir |-> FALSE, branch |-> "main"] }

\* inputs of the tools other than push_project: which inputs are given,
\* whether the content exceeds MAX_CONTENT_SIZE, whether local_file_path
\* is a file
NoInputs ==
    [repo_name |-> FALSE, file_path |-> FALSE, content |-> FALSE,
     local_file_path |-> FALSE, oversize |-> FALSE, isfile |-> FALSE]

DispatchIdle ==
    /\ inp = NoInputs
    /\ apiLog = <<>>
    /\ sizeRejectAt = -1
    /\ file_sha = <<>>
    /\ recentCalls = <<>>

\* the files some variant may ask the collaborator about: those it neither
\* filters out (main 614, fixed 96) nor fails to read (main 617, fixed 104)
Fetchable(f) == f.readable /\ ~(Ignored(<<>>, f) /\ FixedIgnored(<<>>, f))

ZeroCount == [p \in AllPaths |-> 0]

ExtractIdle ==
    /\ prompt = <<>>
    /\ xpc = "idle"
    /\ tool_calls = <<>>
    /\ caught = FALSE
    /\ raised = FALSE

PushInit ==
    /\ variant \in {"main", "fixed"}
    /\ req \in Requests
    /\ root \in Roots
    \* no component of these roots is in the ignore set of the fixed variant
    /\ (variant = "fixed" => root = <<"home", "proj">>)
    /\ project \in Projects
    /\ repoExists \in BOOLEAN
    /\ existing \in SUBSET {f.parts : f \in {g \in Range(project) : Fetchable(g)}}
    /\ (~repoExists => existing = {})
    /\ (~req.isdir => project = <<>>)
    /\ pc = "start"
    /\ repoCreated = FALSE
    /\ files_to_upload = <<>>
    /\ skipped_files = <<>>
    /\ success_files = <<>>
    /\ idx = 0
    /\ attempt = 0
    /\ attempted = {}
    /\ fetchCalls = ZeroCount
    /\ updateCalls = ZeroCount
    /\ createCalls = ZeroCount
    /\ rlAttempts = ZeroCount
    /\ sleeps = ZeroCount
    /\ faults = 0
    /\ response = NoResponse
    /\ tool = "push_project"
    /\ DispatchIdle
    /\ ExtractIdle

(***************************************************************************)
(* push_project, validation and repository provisioning                    *)
(***************************************************************************)
Fail(e) == IF variant = "main" THEN OuterHandler(e) ELSE FixedOuterHandler(e)

\* main 584-593, fixed 65-73
Start ==
    /\ pc = "start"
    /\ IF ~(req.repo_name /\ req.project_path)
       THEN /\ response' = Fail(HTTPError(400, <<"repo_name and project_path are required">>, <<>>))
            /\ pc' = "done"
       ELSE IF ~req.isdir
       THEN /\ response' = Fail(HTTPError(400, <<"Directory does not exist">>, <<>>))
            /\ pc' = "done"
       ELSE /\ pc' = "get_repo"
            /\ UNCHANGED response
    /\ UNCHANGED <<variant, req, root, project, repoExists, existing, repoCreated,
                   files_to_upload, skipped_files, success_files, idx, attempt,
                   attempted, fetchCalls, updateCalls, createCalls, rlAttempts,
                   sleeps, faults,
                   tool, inp, apiLog, sizeRejectAt, file_sha, recentCalls, extractVars>>

\* a GithubException that leaves the provisioning block: main 606-607 then
\* 667-668 then 677-678; fixed 84-85 then 143-144 then 149-150
ProvisioningError(err) ==
    IF variant = "main"
    THEN OuterHandler(InnerHandler("github", <<err>>, skipped_files))
    ELSE FixedOuterHandler(FixedInnerHandler(<<err>>))

\* a collaborator call other than a per-file call of a push, and its answer
ApiCall(op, ans) == [op |-> op, private |-> FALSE, auto_init |-> FALSE, ans |-> ans]

\* main 604: user.create_repo(name=repo_name_short, auto_init=False);
\* fixed 83: user.create_repo(name=repo_name_short); private is left to its
\* default (public), and so is auto_init in the fixed variant
CreateRepoCall(v, ans) ==
    [op |-> "create_repo", private |-> FALSE, auto_init |-> FALSE, ans |-> ans]

\* variation of AfterProvisioningError: the error is swallowed and the push
\* goes on to the files
AfterProvisioningErrorGoesOn(v) == IF v = "main" THEN "walk" ELSE "fx_visit"

\* main 606-607 and 667-668, fixed 84-85 and 143-144: the exception leaves
\* the handler
AfterProvisioningError(v) == "done"

\* main 599-607, fixed 78-85: github_client.get_repo(repo_name)
GetRepo ==
    /\ pc = "get_repo"
    /\ \E ans \in GetRepoAnswers :
        /\ faults' = IF ans \in RepoErrors THEN faults + 1 ELSE faults
        /\ apiLog' = Append(apiLog, ApiCall("get_repo", ans))
        /\ IF ans = "ok" THEN
                /\ pc' = IF variant = "main" THEN "walk" ELSE "fx_visit"
                /\ UNCHANGED response
           ELSE IF ans = "NotFound" THEN
                /\ pc' = "create_repo"
                /\ UNCHANGED response
           ELSE /\ pc' = AfterProvisioningError(variant)
                /\ response' = ProvisioningError(ans)
    /\ idx' = IF pc' = "fx_visit" THEN 1 ELSE idx
    /\ UNCHANGED <<variant, req, root, project, repoExists, existing, repoCreated,
                   files_to_upload, skipped_files, success_files, attempt,
                   attempted, fetchCalls, updateCalls, createCalls, rlAttempts,
                   sleeps,
                   tool, inp, sizeRejectAt, file_sha, recentCalls, extractVars>>

\* main 602-605, fixed 81-83: user.create_repo(name=repo_name_short, ...)
CreateRepo ==
    /\ pc = "create_repo"
    /\ \E ans \in CreateRepoAnswers :
        /\ faults' = IF ans \in RepoErrors THEN faults + 1 ELSE faults
        /\ apiLog' = Append(apiLog, CreateRepoCall(variant, ans))
        /\ IF ans = "ok" THEN
                /\ pc' = IF variant = "main" THEN "walk" ELSE "fx_visit"
                /\ repoCreated' = TRUE
                /\ repoExists' = TRUE
                /\ UNCHANGED response
           ELSE /\ pc' = AfterProvisioningError(variant)
                /\ response' = ProvisioningError(ans)
                /\ UNCHANGED <<repoCreated, repoExists>>
    /\ idx' = IF pc' = "fx_visit" THEN 1 ELSE idx
    /\ UNCHANGED <<variant, req, root, project, existing,
                   files_to_upload, skipped_files, success_files, attempt,
                   attempted, fetchCalls, updateCalls, createCalls, rlAttempts,
                   sleeps,
                   tool, inp, sizeRejectAt, file_sha, recentCalls, extractVars>>

(***************************************************************************)
(* push_project, main variant: walk and upload loop (lines 609-665)        *)
(***************************************************************************)
\* lines 609-630: the walk, the empty check and the default commit message;
\* the HTTPException of line 628 is raised inside the try of line 596, so it
\* is caught at 669 and again at 677
Walk ==
    /\ pc = "walk"
    /\ LET up == WalkUpload(root, project)
           sk == WalkSkipped(root, project)
       IN /\ files_to_upload' = up
          /\ skipped_files' = sk
          /\ sizeRejectAt' = IF \E f \in Range(project) : TooLarge(root, f)
                             THEN Len(apiLog) ELSE sizeRejectAt
          /\ IF up = <<>>
             THEN /\ pc' = "done"
                  /\ response' = OuterHandler(InnerHandler("other",
                                     <<"No files to upload">>, sk))
                  /\ UNCHANGED idx
             ELSE /\ pc' = "fetch"
                  /\ idx' = 1
                  /\ UNCHANGED response
    /\ attempt' = 0
    /\ UNCHANGED <<variant, req, root, project, repoExists, existing, repoCreated,
                   success_files, attempted, fetchCalls, updateCalls, createCalls,
                   rlAttempts, sleeps, faults,
                   tool, inp, apiLog, file_sha, recentCalls, extractVars>>

\* line 632: the next element of files_to_upload, or the end of the loop
NextFile(i) ==
    IF i < Len(files_to_upload)
    THEN [idx |-> i + 1, attempt |-> 0, pc |-> "fetch"]
    ELSE [idx |-> i + 1, attempt |-> 0, pc |-> "finish"]

\* line 633: the next value of range(3), or the end of the attempt loop
NextAttempt(i, a) ==
    IF a + 1 < MaxAttempts
    THEN [idx |-> i, attempt |-> a + 1, pc |-> "fetch"]
    ELSE NextFile(i)

\* variation of AfterSuccess: the break of line 658 is missing
AfterSuccessNoBreak(i, a) == NextAttempt(i, a)

\* line 658: break
AfterSuccess(i, a) == NextFile(i)

\* lines 652-655: sleep, then continue
AfterRateLimit(i, a) == NextAttempt(i, a)

\* variation of AfterGithubError: the handler leaves the file loop
AfterGithubErrorAborts(i, a) == [idx |-> i, attempt |-> a, pc |-> "finish"]

\* lines 659-660: the handler appends to skipped_files and falls off the end
\* of the attempt loop body, so the attempt loop goes on
AfterGithubError(i, a) == NextAttempt(i, a)

\* line 660
RecordFailure(sk, p, err) == Append(sk, [path |-> p, reason |-> err])

\* lines 643 and 651
RecordSuccess(ok, p) == Append(ok, p)

Goto(pos) ==
    /\ idx' = pos.idx
    /\ attempt' = pos.attempt
    /\ pc' = pos.pc

CurrentPath == files_to_upload[idx]

\* the default branch of the repository at the collaborator
DefaultBranch == "main"

\* the branch a per-file call goes to: ref=branch / branch=branch in the main
\* variant (lines 636-650); the fixed variant passes no branch (lines 109-125),
\* so its calls go to the repository's default branch
TargetBranch == IF variant = "main" THEN req.branch ELSE DefaultBranch

\* file.sha of the ContentFile a get_contents call returns: one value per
\* call, the hash of the remote file at the time of that call
FetchedSha(p, n) == <<p, n>>

\* a per-file collaborator call: get_contents, update_file or create_file
FileCall(op, p, sha) ==
    [op |-> op, path |-> p, branch |-> TargetBranch, sha |-> sha,
     idx |-> idx, attempt |-> attempt]

\* the last two per-file calls of the push
Recent(calls, c) ==
    IF calls = <<>> THEN <<c>> ELSE <<calls[Len(calls)], c>>

\* line 636 (first statement): repo.get_contents(rel_path, ref=branch)
GetContents ==
    /\ pc = "fetch"
    /\ LET p == CurrentPath IN
       \E ans \in FetchAnswers(p) :
        /\ fetchCalls' = Bump(fetchCalls, p)
        /\ attempted' = attempted \cup {p}
        /\ recentCalls' = Recent(recentCalls, FileCall("get_contents", p, <<>>))
        /\ file_sha' = IF ans = "Found" THEN FetchedSha(p, fetchCalls[p] + 1)
                       ELSE file_sha
        /\ CASE ans = "Found" ->
                  /\ pc' = "update"
                  /\ UNCHANGED <<idx, attempt, skipped_files, rlAttempts, sleeps, faults>>
             [] ans = "NotFound" ->
                  /\ pc' = "create"
                  /\ UNCHANGED <<idx, attempt, skipped_files, rlAttempts, sleeps, faults>>
             [] ans = "RateLimited" ->
                  /\ Goto(AfterRateLimit(idx, attempt))
                  /\ rlAttempts' = Bump(rlAttempts, p)
                  /\ sleeps' = [sleeps EXCEPT ![p] = @ + BackoffSeconds]
                  /\ faults' = faults + 1
                  /\ UNCHANGED skipped_files
             [] OTHER ->
                  /\ Goto(AfterGithubError(idx, attempt))
                  /\ skipped_files' = RecordFailure(skipped_files, p, ans)
                  /\ faults' = faults + 1
                  /\ UNCHANGED <<rlAttempts, sleeps>>
    /\ UNCHANGED <<variant, req, root, project, repoExists, existing, repoCreated,
                   files_to_upload, success_files, updateCalls, createCalls,
                   response,
                   tool, inp, apiLog, sizeRejectAt, extractVars>>

\* lines 636-643: repo.update_file(..., sha=file.sha, branch=branch)
UpdateFile ==
    /\ pc = "update"
    /\ LET p == CurrentPath IN
       \E ans \in WriteAnswers :
        /\ updateCalls' = Bump(updateCalls, p)
        /\ recentCalls' = Recent(recentCalls, FileCall("update_file", p, file_sha))
        /\ faults' = IF ans = "ok" THEN faults ELSE faults + 1
        /\ CASE ans = "ok" ->
                  /\ Goto(AfterSuccess(idx, attempt))
                  /\ success_files' = RecordSuccess(success_files, p)
                  /\ UNCHANGED <<skipped_files, rlAttempts, sleeps>>
             [] ans = "NotFound" ->
                  /\ pc' = "create"
                  /\ UNCHANGED <<idx, attempt, success_files, skipped_files,
                                 rlAttempts, sleeps>>
             [] ans = "RateLimited" ->
                  /\ Goto(AfterRateLimit(idx, attempt))
                  /\ rlAttempts' = Bump(rlAttempts, p)
                  /\ sleeps' = [sleeps EXCEPT ![p] = @ + BackoffSeconds]
                  /\ UNCHANGED <<success_files, skipped_files>>
             [] OTHER ->
                  /\ Goto(AfterGithubError(idx, attempt))
                  /\ skipped_files' = RecordFailure(skipped_files, p, ans)
                  /\ UNCHANGED <<success_files, rlAttempts, sleeps>>
    /\ UNCHANGED <<variant, req, root, project, repoExists, existing, repoCreated,
                   files_to_upload, attempted, fetchCalls, createCalls,
                   response,
                   tool, inp, apiLog, sizeRejectAt, file_sha, extractVars>>

\* lines 645-651: repo.create_file(...) runs inside the inner except clause,
\* so every GithubException it raises, 429 included, goes to line 659
CreateFile ==
    /\ pc = "create"
    /\ LET p == CurrentPath IN
       \E ans \in WriteAnswers :
        /\ createCalls' = Bump(createCalls, p)
        /\ recentCalls' = Recent(recentCalls, FileCall("create_file", p, <<>>))
        /\ faults' = IF ans = "ok" THEN faults ELSE faults + 1
        /\ IF ans = "ok" THEN
                  /\ Goto(AfterSuccess(idx, attempt))
                  /\ success_files' = RecordSuccess(success_files, p)
                  /\ UNCHANGED <<skipped_files, rlAttempts>>
           ELSE   /\ Goto(AfterGithubError(idx, attempt))
                  /\ skipped_files' = RecordFailure(skipped_files, p, ans)
                  /\ rlAttempts' = IF ans = "RateLimited" THEN Bump(rlAttempts, p)
                                   ELSE rlAttempts
                  /\ UNCHANGED success_files
    /\ UNCHANGED <<variant, req, root, project, repoExists, existing, repoCreated,
                   files_to_upload, attempted, fetchCalls, updateCalls, sleeps,
                   response,
                   tool, inp, apiLog, sizeRejectAt, file_sha, extractVars>>

\* lines 662-665
Finish ==
    /\ pc = "finish"
    /\ pc' = "done"
    /\ response' = [status |-> "success", code |-> 200,
                    detail |-> <<"Pushed project">>, reported |-> skipped_files]
    /\ UNCHANGED <<variant, req, root, project, repoExists, existing, repoCreated,
                   files_to_upload, skipped_files, success_files, idx, attempt,
                   attempted, fetchCalls, updateCalls, createCalls, rlAttempts,
                   sleeps, faults,
                   tool, inp, apiLog, sizeRejectAt, file_sha, recentCalls, extractVars>>

(***************************************************************************)
(* push_project, fixed variant: walk-and-upload loop (lines 88-141)        *)
(***************************************************************************)
\* line 95: the next file of rglob, or the end of the loop
FxNextFile(k) ==
    IF k < Len(project)
    THEN [idx |-> k + 1, attempt |-> 0, pc |-> "fx_visit"]
    ELSE [idx |-> k + 1, attempt |-> 0, pc |-> "fx_finish"]

FxPath == project[idx].parts

\* lines 95-105: filter, relative path, open(...).read()
FxVisit ==
    /\ pc = "fx_visit"
    /\ IF idx > Len(project) THEN
            /\ pc' = "fx_finish"
            /\ UNCHANGED <<idx, attempt, attempted, skipped_files>>
       ELSE LET f == project[idx] IN
            IF FixedIgnored(root, f) THEN
                /\ Goto(FxNextFile(idx))
                /\ UNCHANGED <<attempted, skipped_files>>
            ELSE IF ~f.readable THEN
                /\ Goto(FxNextFile(idx))
                /\ attempted' = attempted \cup {f.parts}
                /\ skipped_files' = RecordFailure(skipped_files, f.parts, "read")
            ELSE
                /\ pc' = "fx_fetch"
                /\ attempted' = attempted \cup {f.parts}
                /\ UNCHANGED <<idx, attempt, skipped_files>>
    /\ UNCHANGED <<variant, req, root, project, repoExists, existing, repoCreated,
                   files_to_upload, success_files, fetchCalls, updateCalls,
                   createCalls, rlAttempts, sleeps, faults, response,
                   tool, inp, apiLog, sizeRejectAt, file_sha, recentCalls, extractVars>>

\* line 109: repo.get_contents(rel_path)
FxGetContents ==
    /\ pc = "fx_fetch"
    /\ \E ans \in FetchAnswers(FxPath) :
        /\ fetchCalls' = Bump(fetchCalls, FxPath)
        /\ recentCalls' = Recent(recentCalls, FileCall("get_contents", FxPath, <<>>))
        /\ file_sha' = IF ans = "Found" THEN FetchedSha(FxPath, fetchCalls[FxPath] + 1)
                       ELSE file_sha
        /\ CASE ans = "Found" ->
                  /\ pc' = "fx_update"
                  /\ UNCHANGED <<idx, attempt, skipped_files, rlAttempts, faults>>
             [] ans = "NotFound" ->
                  /\ pc' = "fx_create"
                  /\ UNCHANGED <<idx, attempt, skipped_files, rlAttempts, faults>>
             [] OTHER ->
                  /\ Goto(FxNextFile(idx))
                  /\ skipped_files' = RecordFailure(skipped_files, FxPath, ans)
                  /\ rlAttempts' = IF ans = "RateLimited" THEN Bump(rlAttempts, FxPath)
                                   ELSE rlAttempts
                  /\ faults' = faults + 1
    /\ UNCHANGED <<variant, req, root, project, repoExists, existing, repoCreated,
                   files_to_upload, success_files, attempted, updateCalls,
                   createCalls, sleeps, response,
                   tool, inp, apiLog, sizeRejectAt, extractVars>>

\* lines 111-116 and 128: repo.update_file(..., sha=file.sha)
FxUpdateFile ==
    /\ pc = "fx_update"
    /\ \E ans \in WriteAnswers :
        /\ updateCalls' = Bump(updateCalls, FxPath)
        /\ recentCalls' = Recent(recentCalls, FileCall("update_file", FxPath, file_sha))
        /\ faults' = IF ans = "ok" THEN faults ELSE faults + 1
        /\ CASE ans = "ok" ->
                  /\ Goto(FxNextFile(idx))
                  /\ success_files' = RecordSuccess(success_files, FxPath)
                  /\ UNCHANGED <<skipped_files, rlAttempts>>
             [] ans = "NotFound" ->
                  /\ pc' = "fx_create"
                  /\ UNCHANGED <<idx, attempt, success_files, skipped_files, rlAttempts>>
             [] OTHER ->
                  /\ Goto(FxNextFile(idx))
                  /\ skipped_files' = RecordFailure(skipped_files, FxPath, ans)
                  /\ rlAttempts' = IF ans = "RateLimited" THEN Bump(rlAttempts, FxPath)
                                   ELSE rlAttempts
                  /\ UNCHANGED success_files
    /\ UNCHANGED <<variant, req, root, project, repoExists, existing, repoCreated,
                   files_to_upload, attempted, fetchCalls, createCalls, sleeps,
                   response,
                   tool, inp, apiLog, sizeRejectAt, file_sha, extractVars>>

\* lines 118-128: repo.create_file(...)
FxCreateFile ==
    /\ pc = "fx_create"
    /\ \E ans \in WriteAnswers :
        /\ createCalls' = Bump(createCalls, FxPath)
        /\ recentCalls' = Recent(recentCalls, FileCall("create_file", FxPath, <<>>))
        /\ faults' = IF ans = "ok" THEN faults ELSE faults + 1
        /\ Goto(FxNextFile(idx))
        /\ IF ans = "ok" THEN
                  /\ success_files' = RecordSuccess(success_files, FxPath)
                  /\ UNCHANGED <<skipped_files, rlAttempts>>
           ELSE   /\ skipped_files' = RecordFailure(skipped_files, FxPath, ans)
                  /\ rlAttempts' = IF ans = "RateLimited" THEN Bump(rlAttempts, FxPath)
                                   ELSE rlAttempts
                  /\ UNCHANGED success_files
    /\ UNCHANGED <<variant, req, root, project, repoExists, existing, repoCreated,
                   files_to_upload, attempted, fetchCalls, updateCalls, sleeps,
                   response,
                   tool, inp, apiLog, sizeRejectAt, file_sha, extractVars>>

\* lines 134-141
FxFinish ==
    /\ pc = "fx_finish"
    /\ pc' = "done"
    /\ response' = [status |-> "success", code |-> 200,
                    detail |-> <<"Project pushed">>, reported |-> skipped_files]
    /\ UNCHANGED <<variant, req, root, project, repoExists, existing, repoCreated,
                   files_to_upload, skipped_files, success_files, idx, attempt,
                   attempted, fetchCalls, updateCalls, createCalls, rlAttempts,
                   sleeps, faults,
                   tool, inp, apiLog, sizeRejectAt, file_sha, recentCalls, extractVars>>

PushNext ==
    \/ Start
    \/ GetRepo
    \/ CreateRepo
    \/ Walk
    \/ GetContents
    \/ UpdateFile
    \/ CreateFile
    \/ Finish
    \/ FxVisit
    \/ FxGetContents
    \/ FxUpdateFile
    \/ FxCreateFile
    \/ FxFinish

SpecPush == PushInit /\ [][PushNext]_vars

(***************************************************************************)
(* Text: a string is a sequence of one-character strings                   *)
(***************************************************************************)
UpperCase == <<"A","B","C","D","E","F","G","H","I","J","K","L","M",
               "N","O","P","Q","R","S","T","U","V","W","X","Y","Z">>
LowerCase == <<"a","b","c","d","e","f","g","h","i","j","k","l","m",
               "n","o","p","q","r","s","t","u","v","w","x","y","z">>

\* re.IGNORECASE compares characters up to case
Lower(c) ==
    IF \E i \in 1..26 : UpperCase[i] = c
    THEN LowerCase[CHOOSE i \in 1..26 : UpperCase[i] = c]
    ELSE c

\* the case-folded text that a pattern compiled with re.IGNORECASE is matched
\* against; positions are those of s
LowerAll(s) == [i \in 1..Len(s) |-> Lower(s[i])]

WhiteSpace == {" ", "\t", "\n"}      \* \s
Quotes == {"'", "\""}                \* ['\"]

\* str.strip()
RECURSIVE LStrip(_)
LStrip(s) == IF s # <<>> /\ Head(s) \in WhiteSpace THEN LStrip(Tail(s)) ELSE s
RECURSIVE RStrip(_)
RStrip(s) ==
    IF s # <<>> /\ s[Len(s)] \in WhiteSpace THEN RStrip(SubSeq(s, 1, Len(s) - 1)) ELSE s
Strip(s) == RStrip(LStrip(s))

RECURSIVE LastSlash(_, _)
LastSlash(s, i) == IF i = 0 THEN 0 ELSE IF s[i] = "/" THEN i ELSE LastSlash(s, i - 1)
\* os.path.basename
Basename(s) == SubSeq(s, LastSlash(s, Len(s)) + 1, Len(s))

(***************************************************************************)
(* Regular expressions.  A pattern is a sequence of items:                 *)
(*   lit   a literal, case-folded                                          *)
(*   ws    \s+ (min 1) or \s* (min 0), greedy, or lazy \s*?                *)
(*   optq  ['\"]?        nq  [^'\"]+        optc  :?                       *)
(*   lazy  [\s\S]*?      eos  $                                            *)
(*   open/close  the bounds of capture group n                             *)
(*   opt   (?:body)?     alt  (?:a|b)       look  (?=(?:a|b))              *)
(* Match returns the first match in the order Python's backtracking        *)
(* matcher explores: greedy items longest first, lazy items shortest       *)
(* first, alternatives left to right.                                      *)
(***************************************************************************)
Lit(s) == [t |-> "lit", s |-> LowerAll(s)]
Ws1 == [t |-> "ws", min |-> 1, lazy |-> FALSE]
Ws0 == [t |-> "ws", min |-> 0, lazy |-> FALSE]
Ws0Lazy == [t |-> "ws", min |-> 0, lazy |-> TRUE]
OptQ == [t |-> "optq"]
OptColon == [t |-> "optc"]
NQ == [t |-> "nq"]
LazyAny == [t |-> "lazy"]
Eos == [t |-> "eos"]
Open(n) == [t |-> "open", n |-> n]
Close(n) == [t |-> "close", n |-> n]
Opt(body) == [t |-> "opt", body |-> body]
Alt(a, b) == [t |-> "alt", a |-> a, b |-> b]
Look(a, b) == [t |-> "look", a |-> a, b |-> b]
\* ['\"]?([^'\"]+)['\"]?  with the capture numbered n
Quoted(n) == <<OptQ, Open(n), NQ, Close(n), OptQ>>

NoMatch == [ok |-> FALSE, start |-> 0, end |-> 0, caps |-> <<>>]
NoGroup == <<0, 0>>

RECURSIVE LitAt(_, _, _, _)
LitAt(text, s, pos, i) ==
    IF i > Len(s) THEN TRUE
    ELSE IF pos + i - 1 > Len(text) THEN FALSE
    ELSE IF text[pos + i - 1] # s[i] THEN FALSE
    ELSE LitAt(text, s, pos, i + 1)

\* number of consecutive characters from pos on that are inside (in = TRUE)
\* or outside (in = FALSE) the class: the run ends before the first
\* character on the other side, or with the text
RunLen(text, pos, cls) ==
    LET stops == {q \in pos..Len(text) : (text[q] \in cls.set) # cls.in}
    IN IF pos > Len(text) THEN 0
       ELSE IF stops = {} THEN Len(text) + 1 - pos
       ELSE (CHOOSE q \in stops : \A o \in stops : q <= o) - pos

RECURSIVE Match(_, _, _, _)
RECURSIVE TryDown(_, _, _, _, _, _)
RECURSIVE TryUp(_, _, _, _, _, _)
\* greedy repetition: k characters, then k-1, ... down to min (after k,
\* the lengths of the upper half of min..k-1 before those of the lower half)
TryDown(text, rest, pos, caps, k, min) ==
    IF k < min THEN NoMatch
    ELSE LET r == Match(text, rest, pos + k, caps)
             mid == (min + k) \div 2
             u == TryDown(text, rest, pos, caps, k - 1, mid)
         IN IF r.ok THEN r
            ELSE IF u.ok THEN u
            ELSE TryDown(text, rest, pos, caps, mid - 1, min)

\* lazy repetition: k characters, then k+1, ... up to max (after k, the
\* lengths of the lower half of k+1..max before those of the upper half)
TryUp(text, rest, pos, caps, k, max) ==
    IF k > max THEN NoMatch
    ELSE LET r == Match(text, rest, pos + k, caps)
             mid == (k + 1 + max) \div 2
             l == TryUp(text, rest, pos, caps, k + 1, mid)
         IN IF r.ok THEN r
            ELSE IF l.ok THEN l
            ELSE TryUp(text, rest, pos, caps, mid + 1, max)

Match(text, items, pos, caps) ==
    CASE items = <<>> -> [ok |-> TRUE, start |-> 0, end |-> pos, caps |-> caps]
      [] items[1].t = "lit" ->
           IF LitAt(text, items[1].s, pos, 1)
           THEN Match(text, Tail(items), pos + Len(items[1].s), caps) ELSE NoMatch
      [] items[1].t = "ws" /\ ~items[1].lazy /\ Len(items) > 1 /\ items[2].t = "lit" ->
           \* greedy whitespace before a literal: no literal of the patterns
           \* starts with whitespace, so the whole run is taken or nothing
           \* matches
           LET n == RunLen(text, pos, [set |-> WhiteSpace, in |-> TRUE])
           IN IF n >= items[1].min /\ LitAt(text, items[2].s, pos + n, 1)
              THEN Match(text, SubSeq(items, 3, Len(items)), pos + n + Len(items[2].s), caps)
              ELSE NoMatch
      [] items[1].t = "ws" ->
           IF items[1].lazy
           THEN TryUp(text, Tail(items), pos, caps, items[1].min,
                      RunLen(text, pos, [set |-> WhiteSpace, in |-> TRUE]))
           ELSE TryDown(text, Tail(items), pos, caps,
                        RunLen(text, pos, [set |-> WhiteSpace, in |-> TRUE]), items[1].min)
      [] items[1].t \in {"optq", "optc"} ->
           LET set == IF items[1].t = "optq" THEN Quotes ELSE {":"}
               r == IF pos <= Len(text) /\ text[pos] \in set
                    THEN Match(text, Tail(items), pos + 1, caps) ELSE NoMatch
           IN IF r.ok THEN r ELSE Match(text, Tail(items), pos, caps)
      [] items[1].t = "open" ->
           Match(text, Tail(items), pos, [caps EXCEPT ![items[1].n] = <<pos, 0>>])
      [] items[1].t = "close" ->
           Match(text, Tail(items), pos, [caps EXCEPT ![items[1].n] = <<@[1], pos>>])
      [] items[1].t = "nq" ->
           TryDown(text, Tail(items), pos, caps,
                   RunLen(text, pos, [set |-> Quotes, in |-> FALSE]), 1)
      [] items[1].t = "lazy" ->
           TryUp(text, Tail(items), pos, caps, 0, Len(text) + 1 - pos)
      [] items[1].t = "eos" ->
           IF pos = Len(text) + 1 THEN Match(text, Tail(items), pos, caps) ELSE NoMatch
      [] items[1].t = "opt" ->
           LET r == Match(text, items[1].body \o Tail(items), pos, caps)
           IN IF r.ok THEN r ELSE Match(text, Tail(items), pos, caps)
      [] items[1].t = "alt" ->
           LET r == Match(text, items[1].a \o Tail(items), pos, caps)
           IN IF r.ok THEN r ELSE Match(text, items[1].b \o Tail(items), pos, caps)
      [] items[1].t = "look" ->
           IF Match(text, items[1].a, pos, caps).ok \/ Match(text, items[1].b, pos, caps).ok
           THEN Match(text, Tail(items), pos, caps) ELSE NoMatch

RECURSIVE FirstAlt(_, _, _, _, _, _)
\* the alternatives lo..hi of a top-level alternation, left to right (those
\* of the lower half before those of the upper half), at one position
FirstAlt(text, alts, lo, hi, pos, caps) ==
    IF lo > hi THEN NoMatch
    ELSE IF lo = hi
    THEN LET r == Match(text, alts[lo], pos, caps)
         IN IF r.ok THEN [r EXCEPT !.start = pos] ELSE NoMatch
    ELSE LET mid == (lo + hi) \div 2
             r == FirstAlt(text, alts, lo, mid, pos, caps)
         IN IF r.ok THEN r ELSE FirstAlt(text, alts, mid + 1, hi, pos, caps)

RECURSIVE SearchBetween(_, _, _, _, _)
\* the match at the leftmost position of lo..hi at which an alternative
\* matches: the positions of the lower half are tried before those of the
\* upper half
SearchBetween(text, alts, lo, hi, caps) ==
    IF lo > hi THEN NoMatch
    ELSE IF lo = hi THEN FirstAlt(text, alts, 1, Len(alts), lo, caps)
    ELSE LET mid == (lo + hi) \div 2
             r == SearchBetween(text, alts, lo, mid, caps)
         IN IF r.ok THEN r ELSE SearchBetween(text, alts, mid + 1, hi, caps)

\* the scan of re.search: the start positions from pos on, left to right
SearchFrom(text, alts, pos, caps) == SearchBetween(text, alts, pos, Len(text) + 1, caps)

\* re.search(pattern, text, re.IGNORECASE) for a pattern that is the
\* alternation of alts and has ngroups capture groups; folded is
\* LowerAll(text)
Search(alts, ngroups, folded) ==
    SearchFrom(folded, alts, 1, [n \in 1..ngroups |-> NoGroup])

\* match.group(n); None is represented by Absent
Absent == <<"<None>">>
Group(text, m, n) ==
    IF m.caps[n][2] = 0 THEN Absent ELSE SubSeq(text, m.caps[n][1], m.caps[n][2] - 1)

(***************************************************************************)
(* The patterns of parse_prompt_for_tool_calls                             *)
(***************************************************************************)
CommitClause(n) ==
    <<Alt(<<Lit(<<"w","i","t","h">>)>>, <<Lit(<<"u","s","i","n","g">>)>>), Ws0, Lit(<<"c","o","m","m","i","t">>), Ws0,
      Lit(<<"m","e","s","s","a","g","e">>), Ws0, Lit(<<":">>), Ws0>> \o Quoted(n)

ContentTail(n) ==
    <<Ws0, Lit(<<"w","i","t","h">>), Ws0, Opt(<<Lit(<<"t","h","e">>), Ws0, Lit(<<"c","o","n","t","e","n","t">>)>>), Ws0,
      OptColon, Ws0, Open(n), LazyAny, Close(n),
      Look(<<Lit(<<"c","o","m","m","i","t">>), Ws0, Lit(<<"m","e","s","s","a","g","e">>), Ws0, Lit(<<":">>)>>, <<Eos>>)>>

\* line 278
repo_pattern ==
    <<Lit(<<"c","r","e","a","t","e">>), Ws1, Lit(<<"a">>), Ws1, Lit(<<"r","e","p","o">>), Opt(<<Lit(<<"s","i","t","o","r","y">>)>>),
      Ws1, Lit(<<"w","i","t","h">>), Ws0, Opt(<<Lit(<<"t","h","e">>), Ws1, Lit(<<"n","a","m","e">>), Ws0>>)>>
    \o Quoted(1)
    \o <<Opt(<<Open(2), Ws0, Lit(<<"p","r","i","v","a","t","e">>), Close(2)>>),
         Opt(<<Open(3), Ws0, Lit(<<"w","i","t","h">>), Ws1, Lit(<<"a">>), Ws0, Lit(<<"R","E","A","D","M","E">>), Close(3)>>)>>

\* line 293
file_pattern ==
    <<Lit(<<"c","r","e","a","t","e">>), Ws1, Lit(<<"a">>), Ws0, Lit(<<"f","i","l","e">>), Ws0>> \o Quoted(1)
    \o <<Ws0, Lit(<<"i","n">>), Ws0>> \o Quoted(2) \o ContentTail(3)

\* lines 294 and 338
commit_pattern ==
    <<Lit(<<"c","o","m","m","i","t">>), Ws0, Lit(<<"m","e","s","s","a","g","e">>), Ws0, Lit(<<":">>), Ws0>> \o Quoted(1)

\* line 311
delete_repo_pattern ==
    <<Lit(<<"d","e","l","e","t","e">>), Ws1, Opt(<<Lit(<<"t","h","e">>), Ws1>>), Lit(<<"r","e","p","o">>),
      Opt(<<Lit(<<"s","i","t","o","r","y">>)>>), Ws0, Opt(<<Lit(<<"n","a","m","e","d">>), Ws1>>)>> \o Quoted(1)

\* line 322
delete_file_pattern ==
    <<Lit(<<"d","e","l","e","t","e">>), Ws1, Opt(<<Lit(<<"t","h","e">>), Ws1>>), Lit(<<"f","i","l","e">>), Ws0>> \o Quoted(1)
    \o <<Ws0, Lit(<<"i","n">>), Ws0>> \o Quoted(2)
    \o <<Ws0Lazy, Opt(CommitClause(3))>>

\* line 337
update_file_pattern ==
    <<Lit(<<"u","p","d","a","t","e">>), Ws1, Opt(<<Lit(<<"t","h","e">>), Ws1>>), Lit(<<"f","i","l","e">>), Ws0>> \o Quoted(1)
    \o <<Ws0, Lit(<<"i","n">>), Ws0>> \o Quoted(2) \o ContentTail(3)

\* line 355
update_local_pattern ==
    <<Lit(<<"u","p","d","a","t","e">>), Ws1, Opt(<<Lit(<<"t","h","e">>), Ws1>>), Lit(<<"f","i","l","e">>), Ws0>> \o Quoted(1)
    \o <<Ws0, Lit(<<"i","n">>), Ws0>> \o Quoted(2)
    \o <<Ws0, Lit(<<"w","i","t","h">>), Ws0, Lit(<<"c","o","n","t","e","n","t">>), Ws0, Lit(<<"f","r","o","m">>), Ws0>> \o Quoted(3)
    \o <<Ws0Lazy, Opt(CommitClause(4))>>

\* line 372: the alternatives of the get_file pattern in source order, each
\* <<verb, object, preposition>>; the object is "file" or "content\s*of"
GetFileAlternatives == <<
    <<<<"g","e","t">>, <<"f","i","l","e">>, <<"i","n">>>>,
    <<<<"r","e","a","d">>, <<"f","i","l","e">>, <<"f","r","o","m">>>>,
    <<<<"s","h","o","w">>, <<"c","o","n","t","e","n","t">>, <<"i","n">>>>,
    <<<<"v","i","e","w">>, <<"f","i","l","e">>, <<"i","n">>>>,
    <<<<"o","p","e","n">>, <<"f","i","l","e">>, <<"i","n">>>>,
    <<<<"f","e","t","c","h">>, <<"f","i","l","e">>, <<"f","r","o","m">>>>,
    <<<<"d","i","s","p","l","a","y">>, <<"f","i","l","e">>, <<"i","n">>>>,
    <<<<"r","e","t","r","i","e","v","e">>, <<"f","i","l","e">>, <<"f","r","o","m">>>>,
    <<<<"a","c","c","e","s","s">>, <<"f","i","l","e">>, <<"i","n">>>>,
    <<<<"l","o","a","d">>, <<"f","i","l","e">>, <<"f","r","o","m">>>>,
    <<<<"e","x","t","r","a","c","t">>, <<"f","i","l","e">>, <<"f","r","o","m">>>>,
    <<<<"p","u","l","l">>, <<"f","i","l","e">>, <<"f","r","o","m">>>>,
    <<<<"g","r","a","b">>, <<"f","i","l","e">>, <<"f","r","o","m">>>>,
    <<<<"c","o","l","l","e","c","t">>, <<"f","i","l","e">>, <<"f","r","o","m">>>>,
    <<<<"o","b","t","a","i","n">>, <<"f","i","l","e">>, <<"f","r","o","m">>>>,
    <<<<"c","h","e","c","k">>, <<"f","i","l","e">>, <<"i","n">>>>,
    <<<<"i","n","s","p","e","c","t">>, <<"f","i","l","e">>, <<"i","n">>>>,
    <<<<"e","x","a","m","i","n","e">>, <<"f","i","l","e">>, <<"i","n">>>>,
    <<<<"r","e","v","i","e","w">>, <<"f","i","l","e">>, <<"i","n">>>>,
    <<<<"s","e","e">>, <<"f","i","l","e">>, <<"i","n">>>>,
    <<<<"l","o","o","k","u","p">>, <<"f","i","l","e">>, <<"i","n">>>>,
    <<<<"f","i","n","d">>, <<"f","i","l","e">>, <<"i","n">>>>,
    <<<<"s","e","a","r","c","h">>, <<"f","i","l","e">>, <<"i","n">>>>,
    <<<<"g","e","t">>, <<"c","o","n","t","e","n","t">>, <<"i","n">>>>,
    <<<<"r","e","a","d">>, <<"c","o","n","t","e","n","t">>, <<"f","r","o","m">>>>,
    <<<<"f","e","t","c","h">>, <<"c","o","n","t","e","n","t">>, <<"f","r","o","m">>>>,
    <<<<"r","e","t","r","i","e","v","e">>, <<"c","o","n","t","e","n","t">>, <<"f","r","o","m">>>>,
    <<<<"a","c","c","e","s","s">>, <<"c","o","n","t","e","n","t">>, <<"i","n">>>>,
    <<<<"l","o","a","d">>, <<"c","o","n","t","e","n","t">>, <<"f","r","o","m">>>>,
    <<<<"e","x","t","r","a","c","t">>, <<"c","o","n","t","e","n","t">>, <<"f","r","o","m">>>>,
    <<<<"p","u","l","l">>, <<"c","o","n","t","e","n","t">>, <<"f","r","o","m">>>>,
    <<<<"g","r","a","b">>, <<"c","o","n","t","e","n","t">>, <<"f","r","o","m">>>>,
    <<<<"c","o","l","l","e","c","t">>, <<"c","o","n","t","e","n","t">>, <<"f","r","o","m">>>>,
    <<<<"o","b","t","a","i","n">>, <<"c","o","n","t","e","n","t">>, <<"f","r","o","m">>>>,
    <<<<"c","h","e","c","k">>, <<"c","o","n","t","e","n","t">>, <<"i","n">>>>,
    <<<<"i","n","s","p","e","c","t">>, <<"c","o","n","t","e","n","t">>, <<"i","n">>>>,
    <<<<"e","x","a","m","i","n","e">>, <<"c","o","n","t","e","n","t">>, <<"i","n">>>>,
    <<<<"r","e","v","i","e","w">>, <<"c","o","n","t","e","n","t">>, <<"i","n">>>>,
    <<<<"s","e","e">>, <<"c","o","n","t","e","n","t">>, <<"i","n">>>>,
    <<<<"l","o","o","k","u","p">>, <<"c","o","n","t","e","n","t">>, <<"i","n">>>>,
    <<<<"f","i","n","d">>, <<"c","o","n","t","e","n","t">>, <<"i","n">>>>,
    <<<<"s","e","a","r","c","h">>, <<"c","o","n","t","e","n","t">>, <<"i","n">>>> >>

\* variation of GetFileAlt: the two captures are numbered the other way round
GetFileAltSwapped(k) ==
    LET a == GetFileAlternatives[k] IN
    <<Lit(a[1]), Ws1, Opt(<<Lit(<<"t","h","e">>), Ws1>>)>>
    \o (IF a[2] = <<"f","i","l","e">> THEN <<Lit(<<"f","i","l","e">>)>>
        ELSE <<Lit(<<"c","o","n","t","e","n","t">>), Ws0, Lit(<<"o","f">>)>>)
    \o <<Ws0>> \o Quoted(2 * k) \o <<Ws0, Lit(a[3]), Ws0>> \o Quoted(2 * k - 1)

\* alternative k captures the path in group 2k-1 and the repository in 2k
GetFileAlt(k) ==
    LET a == GetFileAlternatives[k] IN
    <<Lit(a[1]), Ws1, Opt(<<Lit(<<"t","h","e">>), Ws1>>)>>
    \o (IF a[2] = <<"f","i","l","e">> THEN <<Lit(<<"f","i","l","e">>)>>
        ELSE <<Lit(<<"c","o","n","t","e","n","t">>), Ws0, Lit(<<"o","f">>)>>)
    \o <<Ws0>> \o Quoted(2 * k - 1) \o <<Ws0, Lit(a[3]), Ws0>> \o Quoted(2 * k)

get_file_pattern == [k \in 1..Len(GetFileAlternatives) |-> GetFileAlt(k)]
GetFileGroups == 2 * Len(GetFileAlternatives)

\* line 388
push_project_pattern ==
    <<Alt(<<Lit(<<"p","u","s","h">>)>>, <<Lit(<<"u","p","l","o","a","d">>)>>), Ws0, Opt(<<Lit(<<"t","h","e">>), Ws1>>),
      Lit(<<"p","r","o","j","e","c","t">>), Ws0, Alt(<<Lit(<<"a","t">>)>>, <<Lit(<<"f","r","o","m">>)>>), Ws0>> \o Quoted(1)
    \o <<Ws0, Lit(<<"t","o">>), Ws0>> \o Quoted(2)
    \o <<Ws0Lazy,
         Opt(<<Lit(<<"o","n">>), Ws0, Opt(<<Lit(<<"b","r","a","n","c","h">>), Ws0>>)>> \o Quoted(3)),
         Ws0Lazy, Opt(CommitClause(4))>>

(***************************************************************************)
(* parse_prompt_for_tool_calls (lines 264-409)                             *)
(***************************************************************************)
MaxPromptLength == 100000

\* line 275: prompt[:100_000]
Truncate(s) == IF Len(s) > MaxPromptLength THEN SubSeq(s, 1, MaxPromptLength) ELSE s

\* bool(x) of a group: None and "" are false
Truthy(g) == g # Absent /\ g # <<>>

\* variation of OrDefault: the absent group is passed on
OrDefaultKeepsNone(g, d) == g

\* `x or default`
OrDefault(g, d) == IF Truthy(g) THEN g ELSE d

\* lines 278-290
CreateRepositoryRule(text, folded) ==
    LET m == Search(<<repo_pattern>>, 3, folded) IN
    IF ~m.ok THEN <<>>
    ELSE <<[name |-> "create_repository",
            inputs |-> [repo_name |-> Group(text, m, 1),
                        private |-> Truthy(Group(text, m, 2)),
                        initialize_readme |-> Truthy(Group(text, m, 3))]]>>

\* lines 293-308
CreateFileRule(text, folded) ==
    LET m == Search(<<file_pattern>>, 3, folded)
        c == Search(<<commit_pattern>>, 1, folded)
    IN IF ~m.ok THEN <<>>
       ELSE <<[name |-> "create_file",
               inputs |-> [repo_name |-> Group(text, m, 2),
                           file_path |-> Group(text, m, 1),
                           content |-> Strip(Group(text, m, 3)),
                           commit_message |->
                               IF c.ok THEN Group(text, c, 1)
                               ELSE <<"A","d","d"," ">> \o Group(text, m, 1) \o <<" ","v","i","a"," ","M","C","P">>]]>>

\* lines 311-319
DeleteRepositoryRule(text, folded) ==
    LET m == Search(<<delete_repo_pattern>>, 1, folded) IN
    IF ~m.ok THEN <<>>
    ELSE <<[name |-> "delete_repository",
            inputs |-> [repo_name |-> Group(text, m, 1)]]>>

\* lines 322-334
DeleteFileRule(text, folded) ==
    LET m == Search(<<delete_file_pattern>>, 3, folded) IN
    IF ~m.ok THEN <<>>
    ELSE <<[name |-> "delete_file",
            inputs |-> [repo_name |-> Group(text, m, 2),
                        file_path |-> Group(text, m, 1),
                        commit_message |->
                            OrDefault(Group(text, m, 3),
                                      <<"D","e","l","e","t","e"," ">> \o Group(text, m, 1) \o <<" ","v","i","a"," ","M","C","P">>)]]>>

\* lines 337-352
UpdateFileRule(text, folded) ==
    LET m == Search(<<update_file_pattern>>, 3, folded)
        c == Search(<<commit_pattern>>, 1, folded)
    IN IF ~m.ok THEN <<>>
       ELSE <<[name |-> "update_file",
               inputs |-> [repo_name |-> Group(text, m, 2),
                           file_path |-> Group(text, m, 1),
                           content |-> Strip(Group(text, m, 3)),
                           commit_message |->
                               IF c.ok THEN Group(text, c, 1)
                               ELSE <<"U","p","d","a","t","e"," ">> \o Group(text, m, 1) \o <<" ","v","i","a"," ","M","C","P">>]]>>

\* lines 355-369
UpdateFileFromLocalRule(text, folded) ==
    LET m == Search(<<update_local_pattern>>, 4, folded) IN
    IF ~m.ok THEN <<>>
    ELSE <<[name |-> "update_file_from_local",
            inputs |-> [repo_name |-> Group(text, m, 2),
                        file_path |-> Group(text, m, 1),
                        local_file_path |-> Group(text, m, 3),
                        commit_message |->
                            OrDefault(Group(text, m, 4),
                                      <<"U","p","d","a","t","e"," ">> \o Group(text, m, 1)
                                          \o <<" ","f","r","o","m"," ","l","o","c","a","l"," ","f","i","l","e"," ","v","i","a"," ","M","C","P">>)]]>>

RECURSIVE GetFileCalls(_, _, _, _)
\* lines 374-384: one call per pair of groups whose first group is
\* non-empty, for the pairs lo..hi in the order of the loop
GetFileCalls(text, m, lo, hi) ==
    IF lo > hi THEN <<>>
    ELSE IF lo = hi
    THEN IF Truthy(Group(text, m, 2 * lo - 1))
         THEN <<[name |-> "get_file",
                 inputs |-> [repo_name |-> Group(text, m, 2 * lo),
                             file_path |-> Group(text, m, 2 * lo - 1)]]>>
         ELSE <<>>
    ELSE LET mid == (lo + hi) \div 2
         IN GetFileCalls(text, m, lo, mid) \o GetFileCalls(text, m, mid + 1, hi)

\* lines 387-404
PushProjectRule(text, folded) ==
    LET m == Search(<<push_project_pattern>>, 4, folded) IN
    IF ~m.ok THEN <<>>
    ELSE <<[name |-> "push_project",
            inputs |-> [repo_name |-> Group(text, m, 2),
                        project_path |-> Group(text, m, 1),
                        branch |-> OrDefault(Group(text, m, 3), <<"m","a","i","n">>),
                        commit_message |->
                            OrDefault(Group(text, m, 4),
                                      <<"P","u","s","h"," ","p","r","o","j","e","c","t"," ","f","r","o","m"," ">>
                                          \o Basename(Group(text, m, 1))
                                          \o <<" ","v","i","a"," ","M","C","P">>)]]>>

\* lines 274-369: the rules that run before the get_file rule
RulesBeforeGetFile(text, folded) ==
    CreateRepositoryRule(text, folded) \o CreateFileRule(text, folded) \o DeleteRepositoryRule(text, folded)
    \o DeleteFileRule(text, folded) \o UpdateFileRule(text, folded) \o UpdateFileFromLocalRule(text, folded)

\* lines 372-374: get_file_match.groups() is evaluated without a test for
\* None, so a prompt the get_file pattern does not match raises AttributeError
GetFileRaises(m) == IF m.ok THEN "none" ELSE "AttributeError"

\* the try body, lines 274-406: the list built so far and the exception
\* that interrupted it
TryBody(p) ==
    LET text == Truncate(p)
        folded == LowerAll(text)
        m == Search(get_file_pattern, GetFileGroups, folded)
    IN IF GetFileRaises(m) # "none"
       THEN [exc |-> GetFileRaises(m), calls |-> RulesBeforeGetFile(text, folded)]
       ELSE [exc |-> "none",
             calls |-> RulesBeforeGetFile(text, folded) \o GetFileCalls(text, m, 1, Len(GetFileAlternatives))
                           \o PushProjectRule(text, folded)]

\* line 407: the exceptions that `except Exception` catches
CaughtByExcept == {"AttributeError", "TypeError", "IndexError", "RecursionError"}

\* variation of ExceptHandler: the handler returns the list built so far
ExceptHandlerKeepsCalls(calls) == calls

\* lines 407-409: except Exception: print, return []
ExceptHandler(calls) == <<>>

\* what the function returns, given the outcome of its try body
Returned(o) == IF o.exc \in CaughtByExcept THEN ExceptHandler(o.calls) ELSE o.calls

parse_prompt_for_tool_calls(p) == Returned(TryBody(p))

(***************************************************************************)
(* Prompts                                                                 *)
(***************************************************************************)
Verbs == <<<<"g","e","t">>, <<"r","e","a","d">>, <<"s","h","o","w">>, <<"v","i","e","w">>, <<"o","p","e","n">>, <<"f","e","t","c","h">>,
           <<"d","i","s","p","l","a","y">>, <<"r","e","t","r","i","e","v","e">>, <<"a","c","c","e","s","s">>, <<"l","o","a","d">>, <<"e","x","t","r","a","c","t">>,
           <<"p","u","l","l">>, <<"g","r","a","b">>, <<"c","o","l","l","e","c","t">>, <<"o","b","t","a","i","n">>, <<"c","h","e","c","k">>,
           <<"i","n","s","p","e","c","t">>, <<"e","x","a","m","i","n","e">>, <<"r","e","v","i","e","w">>, <<"s","e","e">>, <<"l","o","o","k","u","p">>,
           <<"f","i","n","d">>, <<"s","e","a","r","c","h">>>>

Prepositions == {<<"i","n">>, <<"f","r","o","m">>}

\* "<verb> the file 'a.txt' <prep> 'o/r'"
GetPrompt(verb, prep) ==
    verb \o <<" ","t","h","e"," ","f","i","l","e"," ","'","a",".","t","x","t","'"," ">> \o prep \o <<" ","'","o","/","r","'">>

PromptDemo == <<"c","r","e","a","t","e"," ","a"," ","r","e","p","o","s","i","t","o","r","y"," ","w","i","t","h"," ","t","h","e"," ","n","a","m","e"," ","'","d","e","m","o","'"," ","p","r","i","v","a","t","e"," ","w","i","t","h"," ","a"," ","R","E","A","D","M","E">>

RepoClauses == {
    <<>>,
    PromptDemo,
    <<"c","r","e","a","t","e"," ","a"," ","r","e","p","o","s","i","t","o","r","y"," ","w","i","t","h"," ","t","h","e"," ","n","a","m","e"," ","'","d","e","m","o","'">>,
    <<"C","r","e","a","t","e"," ","a"," ","r","e","p","o"," ","w","i","t","h"," ","d","e","m","o">> }

GetPrompts == {GetPrompt(Verbs[i], prep) : i \in 1..Len(Verbs), prep \in Prepositions}

GetClauses == {
    <<>>,
    <<"h","e","l","l","o">>,
    <<"s","h","o","w"," ","t","h","e"," ","c","o","n","t","e","n","t"," ","o","f"," ","'","a",".","t","x","t","'"," ","i","n"," ","'","o","/","r","'">>,
    GetPrompt(<<"g","e","t">>, <<"i","n">>),
    GetPrompt(<<"r","e","a","d">>, <<"i","n">>),
    GetPrompt(<<"F","e","t","c","h">>, <<"f","r","o","m">>) }

TailClauses == {
    <<>>,
    <<"c","r","e","a","t","e"," ","a"," ","f","i","l","e"," ","'","a",".","t","x","t","'"," ","i","n"," ","'","o","/","r","'"," ","w","i","t","h"," ","t","h","e"," ","c","o","n","t","e","n","t",":"," ","h","i">>,
    <<"u","p","d","a","t","e"," ","t","h","e"," ","f","i","l","e"," ","'","a",".","t","x","t","'"," ","i","n"," ","'","o","/","r","'"," ","w","i","t","h"," ","c","o","n","t","e","n","t"," ","f","r","o","m"," ","'","l",".","t","x","t","'">>,
    <<"d","e","l","e","t","e"," ","t","h","e"," ","f","i","l","e"," ","'","a",".","t","x","t","'"," ","i","n"," ","'","o","/","r","'"," ","c","o","m","m","i","t"," ","m","e","s","s","a","g","e",":"," ","'","b","y","e","'">>,
    <<"d","e","l","e","t","e"," ","t","h","e"," ","r","e","p","o","s","i","t","o","r","y"," ","n","a","m","e","d"," ","'","d","e","m","o","'">>,
    <<"p","u","s","h"," ","t","h","e"," ","p","r","o","j","e","c","t"," ","a","t"," ","'","/","p","/","x","'"," ","t","o"," ","'","o","/","r","'">> }

Join(a, b) == IF a = <<>> THEN b ELSE IF b = <<>> THEN a ELSE a \o <<" ","a","n","d"," ">> \o b

\* clauses whose optional commit message and branch are given, and update
\* clauses written without the optional quotes
OptionClauses == {
    <<"c","r","e","a","t","e"," ","a"," ","f","i","l","e"," ","'","b",".","t","x","t","'"," ","i","n"," ","'","o","/","r","'"," ","w","i","t","h"," ","t","h","e"," ","c","o","n","t","e","n","t",":"," ","h","i"," ","c","o","m","m","i","t"," ","m","e","s","s","a","g","e",":"," ","'","f","i","r","s","t","'">>,
    <<"d","e","l","e","t","e"," ","t","h","e"," ","f","i","l","e"," ","'","a",".","t","x","t","'"," ","i","n"," ","'","o","/","r","'"," ","w","i","t","h"," ","c","o","m","m","i","t"," ","m","e","s","s","a","g","e",":"," ","'","b","y","e","'">>,
    <<"u","p","d","a","t","e"," ","t","h","e"," ","f","i","l","e"," ","'","a",".","t","x","t","'"," ","i","n"," ","'","o","/","r","'"," ","w","i","t","h"," ","c","o","n","t","e","n","t"," ","f","r","o","m"," ","'","l",".","t","x","t","'"," ","u","s","i","n","g"," ","c","o","m","m","i","t"," ","m","e","s","s","a","g","e",":"," ","'","s","y","n","c","'">>,
    <<"p","u","s","h"," ","t","h","e"," ","p","r","o","j","e","c","t"," ","a","t"," ","'","/","p","/","x","'"," ","t","o"," ","'","o","/","r","'"," ","o","n"," ","b","r","a","n","c","h"," ","'","d","e","v","'"," ","w","i","t","h"," ","c","o","m","m","i","t"," ","m","e","s","s","a","g","e",":"," ","'","g","o","'">>,
    \* update clauses written without the optional quotes
    <<"u","p","d","a","t","e"," ","f","i","l","e"," ","a",".","t","x","t"," ","i","n"," ","o","/","r"," ","w","i","t","h"," ","c","o","n","t","e","n","t"," ","f","r","o","m"," ","l",".","t","x","t">>,
    <<"u","p","d","a","t","e"," ","f","i","l","e"," ","a",".","t","x","t"," ","i","n"," ","o","/","r"," ","w","i","t","h"," ","c","o","n","t","e","n","t"," ","f","r","o","m"," ","l",".","t","x","t"," ","w","i","t","h"," ","c","o","m","m","i","t"," ","m","e","s","s","a","g","e",":"," ","s","y","n","c">>,
    <<"u","p","d","a","t","e"," ","f","i","l","e"," ","a",".","t","x","t"," ","i","n"," ","o","/","r"," ","w","i","t","h"," ","c","o","n","t","e","n","t"," ","f","r","o","m"," ","/","b","i","n","/","x"," ","w","i","t","h"," ","y">> }

Prompts ==
    GetPrompts
        \cup {Join(r, Join(g, t)) : r \in RepoClauses, g \in GetClauses, t \in TailClauses}
        \cup {Join(GetPrompt(<<"g","e","t">>, <<"i","n">>), t) : t \in OptionClauses}

PushIdle ==
    /\ variant = "main"
    /\ req = [repo_name |-> FALSE, project_path |-> FALSE, isdir |-> FALSE, branch |-> "main"]
    /\ root = <<>>
    /\ project = <<>>
    /\ repoExists = FALSE
    /\ existing = {}
    /\ pc = "idle"
    /\ repoCreated = FALSE
    /\ files_to_upload = <<>>
    /\ skipped_files = <<>>
    /\ success_files = <<>>
    /\ idx = 0
    /\ attempt = 0
    /\ attempted = {}
    /\ fetchCalls = ZeroCount
    /\ updateCalls = ZeroCount
    /\ createCalls = ZeroCount
    /\ rlAttempts = ZeroCount
    /\ sleeps = ZeroCount
    /\ faults = 0
    /\ response = NoResponse
    /\ tool = "none"
    /\ DispatchIdle

ExtractInit ==
    /\ prompt \in Prompts
    /\ xpc = "ready"
    /\ tool_calls = <<>>
    /\ caught = FALSE
    /\ raised = FALSE
    /\ PushIdle

\* one call of parse_prompt_for_tool_calls(prompt)
Extract ==
    /\ xpc = "ready"
    /\ xpc' = "done"
    /\ LET o == TryBody(prompt)
       IN /\ tool_calls' = Returned(o)
          /\ caught' = (o.exc \in CaughtByExcept)
          /\ raised' = (o.exc # "none" /\ o.exc \notin CaughtByExcept)
    /\ UNCHANGED <<prompt, pushVars>>

ExtractNext == Extract

SpecExtract == ExtractInit /\ [][ExtractNext]_vars

(***************************************************************************)
(* Properties of push_project                                              *)
(***************************************************************************)
\* number of times p is in the success list
CountSucceeded(p) ==
    Cardinality({i \in 1..Len(success_files) : success_files[i] = p})

\* number of failure records of p
CountFailed(p) ==
    Cardinality({i \in 1..Len(skipped_files) : skipped_files[i].path = p})

\* number of failure records of p for an error other than RateLimited
CountHardFailed(p) ==
    Cardinality({i \in 1..Len(skipped_files) :
                    /\ skipped_files[i].path = p
                    /\ skipped_files[i].reason # "RateLimited"})

\* the files whose loop body the variant has to run
Eligible ==
    IF variant = "main" THEN Range(WalkUpload(root, project))
    ELSE {f.parts : f \in {g \in Range(project) : ~FixedIgnored(root, g)}}

\* the files the variant has to upload
UploadEntries ==
    IF variant = "main" THEN Range(WalkUpload(root, project))
    ELSE {f.parts : f \in {g \in Range(project) : ~FixedIgnored(root, g) /\ g.readable}}

PushFinished == pc = "done" /\ response.status = "success"

\* C1: in the main variant, when a push has finished, every entry all of
\* whose maxRetriesPerFile (3) attempts were answered RateLimited has a
\* failure record in the outcome report.
C1_RateLimitExhaustionRecorded ==
    (variant = "main" /\ PushFinished) =>
        \A p \in attempted : rlAttempts[p] = MaxAttempts => CountFailed(p) >= 1

\* C2: when a push has finished, every attempted entry is exactly once in
\* the union of the succeeded and the failed list: not in both, not twice,
\* not in neither.
C2_OutcomePartition ==
    PushFinished => \A p \in attempted : CountSucceeded(p) + CountFailed(p) = 1

\* C3: in the main variant, an entry that has a failure record for an error
\* other than RateLimited has exactly one such record, and the engine is
\* not about to issue another collaborator call for it.
C3_NoRetryAfterError ==
    variant = "main" =>
        /\ \A p \in AllPaths : CountHardFailed(p) <= 1
        /\ pc \in {"fetch", "update", "create"} => CountHardFailed(CurrentPath) = 0

\* C4: a push that reached its file loop ends with every eligible entry
\* attempted, whatever failures the earlier entries met: the set of
\* attempted entries equals the set of eligible entries.
C4_FailureNeverAborts ==
    PushFinished =>
        /\ attempted = Eligible
        /\ Cardinality(attempted) = Cardinality(Eligible)
        /\ variant = "main" => \A i \in 1..Len(files_to_upload) :
                                    fetchCalls[files_to_upload[i]] >= 1

\* a finished push of the main variant in which the first entry failed and
\* the second entry was attempted all the same
C4_Witness ==
    /\ PushFinished
    /\ variant = "main"
    /\ Len(files_to_upload) >= 2
    /\ CountFailed(files_to_upload[1]) >= 1
    /\ CountSucceeded(files_to_upload[1]) = 0
    /\ fetchCalls[files_to_upload[2]] >= 1

\* C5: with a collaborator that never fails, an entry absent remotely gets
\* exactly one create call, no update call and is recorded as succeeded; an
\* entry present remotely gets exactly one fetch-hash call, exactly one
\* update call and no create call.
C5_UpdateOrCreate ==
    (PushFinished /\ faults = 0) =>
        \A p \in UploadEntries :
            IF p \in existing
            THEN fetchCalls[p] = 1 /\ updateCalls[p] = 1 /\ createCalls[p] = 0
            ELSE createCalls[p] = 1 /\ updateCalls[p] = 0 /\ CountSucceeded(p) = 1

\* a fault-free finished push with one entry that existed remotely and one
\* that did not
C5_Witness ==
    /\ PushFinished
    /\ faults = 0
    /\ \E p \in UploadEntries : p \in existing /\ updateCalls[p] = 1
    /\ \E q \in UploadEntries : q \notin existing /\ createCalls[q] = 1

\* the walk found no file to upload
NoEligibleEntries == UploadEntries = {}

\* C10: a push whose inputs are valid and whose repository was looked up or
\* created without error, but whose directory holds no eligible entry, ends
\* with an error response that reports the skipped files, and issues no
\* create or update call.
C10_EmptyPushFails ==
    (/\ pc = "done"
     /\ req.repo_name /\ req.project_path /\ req.isdir
     /\ faults = 0
     /\ NoEligibleEntries) =>
        /\ response.status = "error"
        /\ response.reported = skipped_files
        /\ \A p \in AllPaths : updateCalls[p] = 0 /\ createCalls[p] = 0

(***************************************************************************)
(* Properties of parse_prompt_for_tool_calls                               *)
(***************************************************************************)
ToolNames == <<"create_repository", "create_file", "delete_repository",
               "delete_file", "update_file", "update_file_from_local",
               "get_file", "push_project">>

\* the pattern of rule r matches the prompt
RuleMatches(r, text, folded) ==
    CASE r = 1 -> Search(<<repo_pattern>>, 3, folded).ok
      [] r = 2 -> Search(<<file_pattern>>, 3, folded).ok
      [] r = 3 -> Search(<<delete_repo_pattern>>, 1, folded).ok
      [] r = 4 -> Search(<<delete_file_pattern>>, 3, folded).ok
      [] r = 5 -> Search(<<update_file_pattern>>, 3, folded).ok
      [] r = 6 -> Search(<<update_local_pattern>>, 4, folded).ok
      [] r = 7 -> Search(get_file_pattern, GetFileGroups, folded).ok
      [] r = 8 -> Search(<<push_project_pattern>>, 4, folded).ok

CallsNamed(calls, n) == Cardinality({i \in 1..Len(calls) : calls[i].name = n})

ExtractDone == xpc = "done"

\* C6: every rule whose pattern matches the prompt contributes exactly one
\* ToolCall of its name to the result, whatever the other rules do.
C6_RulesIndependent ==
    ExtractDone =>
        LET text == Truncate(prompt)
            folded == LowerAll(text)
        IN \A r \in 1..Len(ToolNames) :
              RuleMatches(r, text, folded) => CallsNamed(tool_calls, ToolNames[r]) = 1

DemoCall ==
    [name |-> "create_repository",
     inputs |-> [repo_name |-> <<"d","e","m","o">>, private |-> TRUE, initialize_readme |-> TRUE]]

\* C7: the prompt "create a repository with the name 'demo' private with a
\* README" yields exactly one call, create_repository with repo_name "demo",
\* private true and initialize_readme true.
C7_DemoPrompt ==
    (ExtractDone /\ prompt = PromptDemo) => tool_calls = <<DemoCall>>

GetCall ==
    [name |-> "get_file",
     inputs |-> [repo_name |-> <<"o","/","r">>, file_path |-> <<"a",".","t","x","t">>]]

\* C8 as stated: for every verb of the family, "<verb> the file 'a.txt' in
\* 'o/r'" yields a get_file call for a.txt in o/r.
C8_EveryVerbWithIn ==
    ExtractDone =>
        \A i \in 1..Len(Verbs) :
            prompt = GetPrompt(Verbs[i], <<"i","n">>) => GetCall \in Range(tool_calls)

InVerbs == {<<"g","e","t">>, <<"v","i","e","w">>, <<"o","p","e","n">>, <<"d","i","s","p","l","a","y">>, <<"a","c","c","e","s","s">>, <<"c","h","e","c","k">>,
            <<"i","n","s","p","e","c","t">>, <<"e","x","a","m","i","n","e">>, <<"r","e","v","i","e","w">>, <<"s","e","e">>, <<"l","o","o","k","u","p">>, <<"f","i","n","d">>,
            <<"s","e","a","r","c","h">>}
FromVerbs == {<<"r","e","a","d">>, <<"f","e","t","c","h">>, <<"r","e","t","r","i","e","v","e">>, <<"l","o","a","d">>, <<"e","x","t","r","a","c","t">>, <<"p","u","l","l">>,
              <<"g","r","a","b">>, <<"c","o","l","l","e","c","t">>, <<"o","b","t","a","i","n">>}

\* C8 amended: "<verb> the file 'a.txt' <prep> 'o/r'" yields exactly the one
\* get_file call for a.txt in o/r when the verb is one of get, view, open,
\* display, access, check, inspect, examine, review, see, lookup, find,
\* search and the preposition is "in", or the verb is one of read, fetch,
\* retrieve, load, extract, pull, grab, collect, obtain and the preposition
\* is "from"; every other pairing of a verb of the family with "in" or
\* "from" ("show" included) yields the empty sequence.
C8_VerbsByPreposition ==
    ExtractDone =>
        \A i \in 1..Len(Verbs) : \A prep \in Prepositions :
            prompt = GetPrompt(Verbs[i], prep) =>
                IF \/ Verbs[i] \in InVerbs /\ prep = <<"i","n">>
                   \/ Verbs[i] \in FromVerbs /\ prep = <<"f","r","o","m">>
                THEN tool_calls = <<GetCall>>
                ELSE tool_calls = <<>>

\* the extractor has answered "review the file 'a.txt' in 'o/r'" with the
\* get_file call
C8_Witness ==
    /\ ExtractDone
    /\ prompt = GetPrompt(<<"r","e","v","i","e","w">>, <<"i","n">>)
    /\ tool_calls = <<GetCall>>

\* no rule's pattern matches the prompt
NoRuleMatches(p) ==
    LET text == Truncate(p)
        folded == LowerAll(text)
    IN \A r \in 1..Len(ToolNames) : ~RuleMatches(r, text, folded)

\* C9: the extractor never raises; it returns a sequence of ToolCalls, the
\* empty one for a prompt no rule matches and the empty one when an error
\* inside the matching was caught.
C9_NeverRaises ==
    ExtractDone =>
        /\ ~raised
        /\ \A i \in 1..Len(tool_calls) : tool_calls[i].name \in Range(ToolNames)
        /\ NoRuleMatches(prompt) => tool_calls = <<>>
        /\ caught => tool_calls = <<>>

\* the extractor caught an error on a prompt that the create_repository
\* rule had matched, and returned the empty sequence
C9_Witness ==
    /\ ExtractDone
    /\ caught
    /\ ~raised
    /\ RuleMatches(1, Truncate(prompt), LowerAll(Truncate(prompt)))
    /\ tool_calls = <<>>


(***************************************************************************)
(* Properties of push_project: provisioning, walk, attempts, calls         *)
(***************************************************************************)
\* the number of per-file collaborator calls issued so far
FileCallCount(p) == fetchCalls[p] + updateCalls[p] + createCalls[p]

NoFileCall == \A p \in AllPaths : FileCallCount(p) = 0

LastApi == apiLog[Len(apiLog)]

\* the repository was looked up, or looked up as absent and then created
Provisioned ==
    \/ /\ Len(apiLog) = 1
       /\ apiLog[1].op = "get_repo" /\ apiLog[1].ans = "ok"
    \/ /\ Len(apiLog) = 2
       /\ apiLog[1].op = "get_repo" /\ apiLog[1].ans = "NotFound"
       /\ apiLog[2].op = "create_repo" /\ apiLog[2].ans = "ok"
       /\ ~apiLog[2].private /\ ~apiLog[2].auto_init

\* C11: in a push, a file fetch, update or create call is issued only after
\* the repository was looked up successfully, or looked up as absent and
\* then created public and without an auto-initialized README; when the
\* lookup fails with an error other than NotFound, or the creation fails,
\* the push is over with one error response and no file call was issued.
C11_RepositoryBeforeFiles ==
    tool = "push_project" =>
        /\ (~NoFileCall => Provisioned)
        /\ (pc \in {"walk", "fetch", "update", "create", "finish",
                    "fx_visit", "fx_fetch", "fx_update", "fx_create", "fx_finish"}
                => Provisioned)
        /\ (apiLog # <<>> /\ LastApi.ans \in RepoErrors =>
                /\ pc = "done"
                /\ response.status = "error"
                /\ NoFileCall)

\* a push that created the absent repository and then issued a file call
C11_Witness ==
    /\ tool = "push_project"
    /\ Len(apiLog) = 2 /\ apiLog[2].op = "create_repo" /\ apiLog[2].ans = "ok"
    /\ ~NoFileCall

\* a push whose repository creation failed
C11_WitnessAbort ==
    /\ tool = "push_project"
    /\ Len(apiLog) = 2 /\ apiLog[2].op = "create_repo"
    /\ apiLog[2].ans \in RepoErrors
    /\ pc = "done"

\* a relative path with a component equal to a name of the ignore set
RelIgnored(f) == \E p \in ignore_patterns : p \in Range(f.parts)

\* C12: in a push, no fetch, update or create call is issued for a file
\* whose relative path has a component equal to one of '.git',
\* '__pycache__', '.venv', '.env', 'node_modules', nor for a file larger
\* than the ceiling.
C12_NoCallForExcluded ==
    tool = "push_project" =>
        \A f \in Range(project) :
            (RelIgnored(f) \/ f.size > MAX_CONTENT_SIZE) => FileCallCount(f.parts) = 0

\* the same statement for each variant on its own
C12_Main == variant = "main" => C12_NoCallForExcluded

C12_FixedIgnore ==
    variant = "fixed" =>
        \A f \in Range(project) : RelIgnored(f) => FileCallCount(f.parts) = 0

C12_FixedSize ==
    variant = "fixed" =>
        \A f \in Range(project) :
            f.size > MAX_CONTENT_SIZE => FileCallCount(f.parts) = 0

\* the files of the project that exceed the size ceiling
Oversize == {f \in Range(project) : f.size > MAX_CONTENT_SIZE}

\* a push of n readable files, none of them under an ignored directory, of
\* which m < n are oversize, served by a collaborator that never fails
SizeScenario ==
    /\ tool = "push_project"
    /\ req.repo_name /\ req.project_path /\ req.isdir
    /\ \A f \in Range(project) :
            f.readable /\ ~Ignored(root, f) /\ ~FixedIgnored(root, f)
    /\ Cardinality(Oversize) < Len(project)
    /\ faults = 0

SizeFailures ==
    {i \in 1..Len(skipped_files) : skipped_files[i].reason = "size"}

\* C13: a push of n files of which m exceed the size ceiling, with a
\* collaborator that does not fail, ends with the repository present
\* (created when it was absent), exactly n - m succeeded entries and exactly
\* m failed entries, each with a size-exceeded reason.
C13_SizeOutcome ==
    (SizeScenario /\ pc = "done") =>
        /\ response.status = "success"
        /\ repoExists
        /\ Len(success_files) = Len(project) - Cardinality(Oversize)
        /\ Len(skipped_files) = Cardinality(Oversize)
        /\ Cardinality(SizeFailures) = Cardinality(Oversize)

\* the same statement for the main variant alone
C13_Main == variant = "main" => C13_SizeOutcome

\* the spec's case in the main variant: 3 files, 1 oversize, repository
\* created by the push
C13_MainCase ==
    /\ variant = "main" /\ SizeScenario /\ pc = "done"
    /\ Len(project) = 3 /\ Cardinality(Oversize) = 1
    /\ repoCreated

(***************************************************************************)
(* invoke_tool: the tools other than push_project (main, lines 421-581)    *)
(***************************************************************************)
AllGiven ==
    [repo_name |-> TRUE, file_path |-> TRUE, content |-> TRUE,
     local_file_path |-> TRUE, oversize |-> FALSE, isfile |-> TRUE]

\* invocation.inputs: everything given, one input missing, content over the
\* ceiling, local_file_path not a file
ToolInputs ==
    {AllGiven,
     [AllGiven EXCEPT !.repo_name = FALSE],
     [AllGiven EXCEPT !.file_path = FALSE],
     [AllGiven EXCEPT !.content = FALSE],
     [AllGiven EXCEPT !.local_file_path = FALSE, !.isfile = FALSE],
     [AllGiven EXCEPT !.oversize = TRUE],
     [AllGiven EXCEPT !.isfile = FALSE]}

\* invocation.tool
OtherTools == {"create_repository", "create_file", "delete_repository",
               "delete_file", "update_file", "update_file_from_local",
               "get_file", "no_such_tool"}

\* the branches of the if/elif chain: main 421-583, fixed 64
KnownTools(v) ==
    IF v = "main" THEN (OtherTools \ {"no_such_tool"}) \cup {"push_project"}
    ELSE {"push_project"}

ToolInit ==
    /\ variant \in {"main", "fixed"}
    /\ tool \in OtherTools
    /\ inp \in ToolInputs
    /\ pc = "invoke"
    /\ req = [repo_name |-> FALSE, project_path |-> FALSE, isdir |-> FALSE,
              branch |-> "main"]
    /\ root = <<>>
    /\ project = <<>>
    /\ repoExists = FALSE
    /\ existing = {}
    /\ repoCreated = FALSE
    /\ files_to_upload = <<>>
    /\ skipped_files = <<>>
    /\ success_files = <<>>
    /\ idx = 0
    /\ attempt = 0
    /\ attempted = {}
    /\ fetchCalls = ZeroCount
    /\ updateCalls = ZeroCount
    /\ createCalls = ZeroCount
    /\ rlAttempts = ZeroCount
    /\ sleeps = ZeroCount
    /\ faults = 0
    /\ response = NoResponse
    /\ apiLog = <<>>
    /\ sizeRejectAt = -1
    /\ file_sha = <<>>
    /\ recentCalls = <<>>
    /\ ExtractIdle

\* what the collaborator answers to one call of these tools
ToolErrors == {"NotFound", "RateLimited", "Transient"}
ToolAnswers == {"ok"} \cup ToolErrors

RECURSIVE Issued(_, _)
\* the calls a straight-line sequence of collaborator calls issues when the
\* collaborator answers ans: the first exception ends the sequence
Issued(ops, ans) ==
    IF ops = <<>> THEN <<>>
    ELSE <<ApiCall(Head(ops), Head(ans))>>
            \o (IF Head(ans) = "ok" THEN Issued(Tail(ops), Tail(ans)) ELSE <<>>)

Runs(ops) == {Issued(ops, a) : a \in [1..Len(ops) -> ToolAnswers]}

\* the GithubException a run ended with, "ok" when it ended normally
Outcome(log) == IF log = <<>> THEN "ok" ELSE log[Len(log)].ans

Success(d) == [status |-> "success", code |-> 200, detail |-> d, reported |-> <<>>]

\* raise HTTPException(status_code=500, detail=f"GitHub API error: {str(e)}")
GithubError(ans) == HTTPError(500, <<"GitHub API error", ans>>, <<>>)

\* lines 442-443, 502-503, 529-530
SizeError == HTTPError(400, <<"Content size exceeds 100 MB limit">>, <<>>)

\* variation of Valid: create_file and update_file do not ask for content
ValidWithoutContent(t, i) ==
    CASE t \in {"create_repository", "delete_repository"} -> i.repo_name
      [] t \in {"create_file", "update_file"} -> i.repo_name /\ i.file_path
      [] t \in {"delete_file", "get_file"} -> i.repo_name /\ i.file_path
      [] t = "update_file_from_local" ->
            i.repo_name /\ i.file_path /\ i.local_file_path

\* the `if not repo_name` / `if not all([...])` tests of lines 425, 439, 458,
\* 473, 496, 522 and 564
Valid(t, i) ==
    CASE t \in {"create_repository", "delete_repository"} -> i.repo_name
      [] t \in {"create_file", "update_file"} ->
            i.repo_name /\ i.file_path /\ i.content
      [] t \in {"delete_file", "get_file"} -> i.repo_name /\ i.file_path
      [] t = "update_file_from_local" ->
            i.repo_name /\ i.file_path /\ i.local_file_path

\* the detail of the HTTPException(400) of those tests
RequiredMessage(t) ==
    CASE t \in {"create_repository", "delete_repository"} -> "repo_name is required"
      [] t \in {"create_file", "update_file"} ->
            "repo_name, file_path, and content are required"
      [] t \in {"delete_file", "get_file"} -> "repo_name and file_path are required"
      [] t = "update_file_from_local" ->
            "repo_name, file_path, and local_file_path are required"

\* the end of a tool other than push_project: its response, the collaborator
\* calls it issued, and the number of calls issued before an oversize
\* content was detected
Respond(r, log, rejectAt) ==
    /\ pc' = "done"
    /\ response' = r
    /\ apiLog' = log
    /\ sizeRejectAt' = rejectAt
    /\ UNCHANGED <<variant, req, root, project, repoExists, existing, repoCreated,
                   files_to_upload, skipped_files, success_files, idx, attempt,
                   attempted, fetchCalls, updateCalls, createCalls, rlAttempts,
                   sleeps, faults, tool, inp, file_sha, recentCalls, extractVars>>

Reject(e) == Respond(OuterHandler(e), <<>>, -1)

Dispatched(t) == pc = "invoke" /\ variant = "main" /\ tool = t

\* lines 421-434; get_user() issues no request, and a GithubException of
\* create_repo goes straight to the handler of line 675
CreateRepositoryTool ==
    /\ Dispatched("create_repository")
    /\ IF ~Valid(tool, inp)
       THEN Reject(HTTPError(400, <<RequiredMessage(tool)>>, <<>>))
       ELSE \E log \in Runs(<<"create_repo">>) :
                Respond(IF Outcome(log) = "ok" THEN Success(<<"html_url">>)
                        ELSE GithubError(Outcome(log)),
                        log, -1)

\* lines 436-454
CreateFileTool ==
    /\ Dispatched("create_file")
    /\ IF ~Valid(tool, inp)
       THEN Reject(HTTPError(400, <<RequiredMessage(tool)>>, <<>>))
       ELSE IF inp.oversize
       THEN Respond(OuterHandler(SizeError), <<>>, 0)
       ELSE \E log \in Runs(<<"get_repo", "create_file">>) :
                Respond(IF Outcome(log) = "ok" THEN Success(<<"File created">>)
                        ELSE OuterHandler(GithubError(Outcome(log))),
                        log, -1)

\* lines 456-466; user.login asks the collaborator for the user
DeleteRepositoryTool ==
    /\ Dispatched("delete_repository")
    /\ IF ~Valid(tool, inp)
       THEN Reject(HTTPError(400, <<RequiredMessage(tool)>>, <<>>))
       ELSE \E log \in Runs(<<"get_user", "get_repo", "delete">>) :
                Respond(IF Outcome(log) = "ok" THEN Success(<<"Repository deleted">>)
                        ELSE OuterHandler(GithubError(Outcome(log))),
                        log, -1)

\* lines 484-487 and 578-581: a 404 becomes HTTPException(404), any other
\* GithubException HTTPException(500)
NotFoundOrGithubError(ans) ==
    IF ans = "NotFound" THEN HTTPError(404, <<"File not found">>, <<>>)
    ELSE GithubError(ans)

\* lines 468-488
DeleteFileTool ==
    /\ Dispatched("delete_file")
    /\ IF ~Valid(tool, inp)
       THEN Reject(HTTPError(400, <<RequiredMessage(tool)>>, <<>>))
       ELSE \E log \in Runs(<<"get_repo", "get_contents", "delete_file">>) :
                Respond(IF Outcome(log) = "ok" THEN Success(<<"File deleted">>)
                        ELSE OuterHandler(NotFoundOrGithubError(Outcome(log))),
                        log, -1)

\* lines 490-514
UpdateFileTool ==
    /\ Dispatched("update_file")
    /\ IF ~Valid(tool, inp)
       THEN Reject(HTTPError(400, <<RequiredMessage(tool)>>, <<>>))
       ELSE IF inp.oversize
       THEN Respond(OuterHandler(SizeError), <<>>, 0)
       ELSE \E log \in Runs(<<"get_repo", "get_contents", "update_file">>) :
                Respond(IF Outcome(log) = "ok" THEN Success(<<"File updated">>)
                        ELSE OuterHandler(GithubError(Outcome(log))),
                        log, -1)

\* lines 534-553: get_repo, then get_contents and update_file, and
\* create_file when one of these two answers 404
LocalUpdateRuns ==
    LET first == Runs(<<"get_repo", "get_contents", "update_file">>)
        fallback == {l \in first : Len(l) >= 2 /\ Outcome(l) = "NotFound"}
    IN (first \ fallback)
        \cup {l \o <<ApiCall("create_file", a)>> : l \in fallback, a \in ToolAnswers}

\* lines 516-558; the HTTPException of the size test is raised inside the
\* try of line 526 and caught at line 557
UpdateFileFromLocalTool ==
    /\ Dispatched("update_file_from_local")
    /\ IF ~Valid(tool, inp)
       THEN Reject(HTTPError(400, <<RequiredMessage(tool)>>, <<>>))
       ELSE IF ~inp.isfile
       THEN Reject(HTTPError(400, <<"Local file does not exist">>, <<>>))
       ELSE IF inp.oversize
       THEN Respond(OuterHandler(HTTPError(500,
                        <<"Error reading file">> \o SizeError.detail, <<>>)),
                    <<>>, 0)
       ELSE \E log \in LocalUpdateRuns :
                Respond(IF Outcome(log) = "ok" THEN Success(<<"File updated from local">>)
                        ELSE OuterHandler(GithubError(Outcome(log))),
                        log, -1)

\* lines 560-581
GetFileTool ==
    /\ Dispatched("get_file")
    /\ IF ~Valid(tool, inp)
       THEN Reject(HTTPError(400, <<RequiredMessage(tool)>>, <<>>))
       ELSE \E log \in Runs(<<"get_repo", "get_contents">>) :
                Respond(IF Outcome(log) = "ok" THEN Success(<<"content", "sha">>)
                        ELSE OuterHandler(NotFoundOrGithubError(Outcome(log))),
                        log, -1)

\* main 672-673, fixed 146-147: the final else of the if/elif chain
UnknownTool ==
    /\ pc = "invoke"
    /\ tool \notin KnownTools(variant)
    /\ Respond(Fail(HTTPError(400, <<"Unknown tool">>, <<>>)), <<>>, -1)

InvokeInit == PushInit \/ ToolInit

InvokeNext ==
    \/ PushNext
    \/ CreateRepositoryTool
    \/ CreateFileTool
    \/ DeleteRepositoryTool
    \/ DeleteFileTool
    \/ UpdateFileTool
    \/ UpdateFileFromLocalTool
    \/ GetFileTool
    \/ UnknownTool

SpecInvoke == InvokeInit /\ [][InvokeNext]_vars

(***************************************************************************)
(* Properties of the dispatcher                                            *)
(***************************************************************************)
\* the inputs the tool catalog marks "required": True (main 26-258, fixed
\* 26-53)
Required(t) ==
    CASE t \in {"create_repository", "delete_repository"} -> {"repo_name"}
      [] t \in {"create_file", "update_file"} -> {"repo_name", "file_path", "content"}
      [] t \in {"delete_file", "get_file"} -> {"repo_name", "file_path"}
      [] t = "update_file_from_local" -> {"repo_name", "file_path", "local_file_path"}
      [] t = "push_project" -> {"repo_name", "project_path"}

\* the invocation carries input i
Given(i) == IF tool = "push_project" THEN req[i] ELSE inp[i]

\* the invocation names a tool of the variant's dispatcher and lacks one of
\* its required inputs
MissingRequired ==
    /\ tool \in KnownTools(variant)
    /\ \E i \in Required(tool) : ~Given(i)

ValidationMessages ==
    {"repo_name is required",
     "repo_name, file_path, and content are required",
     "repo_name and file_path are required",
     "repo_name, file_path, and local_file_path are required",
     "repo_name and project_path are required",
     "Unknown tool"}

NoCollaboratorCall == apiLog = <<>> /\ NoFileCall

\* C14: an invocation of any tool that lacks a required input, or that
\* names a tool the dispatcher does not have, ends with an error response
\* carrying the message of the validation test, and no collaborator call is
\* issued for it.
C14_InvalidRejectedLocally ==
    (MissingRequired \/ tool \notin KnownTools(variant)) =>
        /\ NoCollaboratorCall
        /\ pc = "done" =>
            /\ response.status = "error"
            /\ response.detail[Len(response.detail)] \in ValidationMessages

\* a finished create_file invocation without content, and nothing was called
C14_Witness ==
    /\ pc = "done"
    /\ variant = "main" /\ tool = "create_file"
    /\ inp.repo_name /\ inp.file_path /\ ~inp.content
    /\ response.status = "error"
    /\ apiLog = <<>>

\* delete_file or get_file was invoked with valid inputs and get_contents
\* answered that the file does not exist
FileNotFound ==
    /\ pc = "done"
    /\ tool \in {"delete_file", "get_file"} /\ variant = "main"
    /\ apiLog # <<>>
    /\ LastApi.op = "get_contents" /\ LastApi.ans = "NotFound"

\* C15: when delete_file or get_file is invoked on a file that does not
\* exist, the response carries the NotFound status (404); and when an
\* invocation is rejected by a validation test, the response carries the
\* status of that validation error (400), not the generic 500.
C15_StatusPreserved ==
    /\ FileNotFound => response.code = 404
    /\ (pc = "done" /\ MissingRequired) => response.code = 400

\* the two halves of C15 on their own
C15_NotFoundIs404 == FileNotFound => response.code = 404

C15_ValidationIs400 == (pc = "done" /\ MissingRequired) => response.code = 400

\* C16: in every invocation of a tool that carries content, no collaborator
\* call has been issued when content over the ceiling is detected.
C16_SizeCheckBeforeCalls == sizeRejectAt # -1 => sizeRejectAt = 0

\* the same statement for create_file, update_file and
\* update_file_from_local alone: oversize content ends the invocation with
\* an error and without any collaborator call
C16_FileTools ==
    (/\ pc = "done" /\ variant = "main"
     /\ tool \in {"create_file", "update_file", "update_file_from_local"}
     /\ Valid(tool, inp) /\ inp.isfile /\ inp.oversize) =>
        /\ sizeRejectAt = 0
        /\ apiLog = <<>>
        /\ response.status = "error"

(***************************************************************************)
(* Properties of parse_prompt_for_tool_calls: defaults                     *)
(***************************************************************************)
ViaMCP == <<" ","v","i","a"," ","M","C","P">>

\* msg is "<Verb> <path> via MCP" for some word <Verb>
VerbPathForm(msg, path) ==
    \E n \in 1..Len(msg) :
        /\ \A k \in 1..n : msg[k] # " "
        /\ msg = SubSeq(msg, 1, n) \o <<" ">> \o path \o ViaMCP

\* the rules that produce a commit message
CommitRules == {"create_file", "delete_file", "update_file",
                "update_file_from_local", "push_project"}

\* the rule that emits calls named n found no commit message in the prompt
CommitAbsent(n, text, folded) ==
    CASE n \in {"create_file", "update_file"} -> ~Search(<<commit_pattern>>, 1, folded).ok
      [] n = "delete_file" ->
            Group(text, Search(<<delete_file_pattern>>, 3, folded), 3) = Absent
      [] n = "update_file_from_local" ->
            Group(text, Search(<<update_local_pattern>>, 4, folded), 4) = Absent
      [] n = "push_project" ->
            Group(text, Search(<<push_project_pattern>>, 4, folded), 4) = Absent

\* the path the commit message of a call is about
PathOf(c) == IF c.name = "push_project" THEN c.inputs.project_path ELSE c.inputs.file_path

\* the defaults of the flags of create_repository and of the branch of
\* push_project
FlagAndBranchDefaults(c, text, folded) ==
    /\ c.name = "create_repository" =>
        LET m == Search(<<repo_pattern>>, 3, folded)
        IN /\ Group(text, m, 2) = Absent => c.inputs.private = FALSE
           /\ Group(text, m, 3) = Absent => c.inputs.initialize_readme = FALSE
    /\ c.name = "push_project" =>
        (Group(text, Search(<<push_project_pattern>>, 4, folded), 3) = Absent
            => c.inputs.branch = <<"m","a","i","n">>)

\* C17 as stated: in every returned call whose rule matched with an optional
\* capture absent, private and initialize_readme are false, branch is
\* "main", and the commit message is "<Verb> <path> via MCP".
C17_VerbPathDefaults ==
    ExtractDone =>
        LET text == Truncate(prompt)
            folded == LowerAll(text)
        IN \A i \in 1..Len(tool_calls) :
              LET c == tool_calls[i] IN
              /\ FlagAndBranchDefaults(c, text, folded)
              /\ (c.name \in CommitRules /\ CommitAbsent(c.name, text, folded))
                    => VerbPathForm(c.inputs.commit_message, PathOf(c))

\* the commit message each rule generates
GeneratedMessage(c) ==
    CASE c.name = "create_file" -> <<"A","d","d"," ">> \o c.inputs.file_path \o ViaMCP
      [] c.name = "delete_file" -> <<"D","e","l","e","t","e"," ">> \o c.inputs.file_path \o ViaMCP
      [] c.name = "update_file" -> <<"U","p","d","a","t","e"," ">> \o c.inputs.file_path \o ViaMCP
      [] c.name = "update_file_from_local" ->
            <<"U","p","d","a","t","e"," ">> \o c.inputs.file_path \o <<" ","f","r","o","m"," ","l","o","c","a","l"," ","f","i","l","e">> \o ViaMCP
      [] c.name = "push_project" ->
            <<"P","u","s","h"," ","p","r","o","j","e","c","t"," ","f","r","o","m"," ">> \o Basename(c.inputs.project_path) \o ViaMCP

\* C17 amended: the flags default to false and the branch to "main"; the
\* default commit message is "Add <file_path> via MCP" for create_file,
\* "Delete <file_path> via MCP" for delete_file, "Update <file_path> via
\* MCP" for update_file, "Update <file_path> from local file via MCP" for
\* update_file_from_local and "Push project from <last component of
\* project_path> via MCP" for push_project.
C17_GeneratedDefaults ==
    ExtractDone =>
        LET text == Truncate(prompt)
            folded == LowerAll(text)
        IN \A i \in 1..Len(tool_calls) :
              LET c == tool_calls[i] IN
              /\ FlagAndBranchDefaults(c, text, folded)
              /\ (c.name \in CommitRules /\ CommitAbsent(c.name, text, folded))
                    => c.inputs.commit_message = GeneratedMessage(c)

\* a result with a push_project call whose branch and commit message were
\* both defaulted
C17_Witness ==
    /\ ExtractDone
    /\ \E i \in 1..Len(tool_calls) :
          /\ tool_calls[i].name = "push_project"
          /\ tool_calls[i].inputs.branch = <<"m","a","i","n">>
          /\ tool_calls[i].inputs.commit_message = <<"P","u","s","h"," ","p","r","o","j","e","c","t"," ","f","r","o","m"," ","x"," ","v","i","a"," ","M","C","P">>

\* C18: a finished push made at most maxRetriesPerFile = 3 fetch-hash calls
\* for each entry, and waited the 10-second backoff only between two
\* consecutive attempts of an entry: at most one wait less than attempts.
C18_BoundedAttemptsAndBackoff ==
    (tool = "push_project" /\ variant = "main" /\ pc = "done") =>
        \A p \in Range(files_to_upload) :
            /\ fetchCalls[p] <= MaxAttempts
            /\ sleeps[p] <= BackoffSeconds * (fetchCalls[p] - 1)

\* the part of C18 about the number of attempts alone
C18_AttemptsBounded ==
    tool = "push_project" =>
        \A p \in AllPaths :
            /\ fetchCalls[p] <= MaxAttempts
            /\ rlAttempts[p] <= MaxAttempts
            /\ sleeps[p] <= BackoffSeconds * MaxAttempts

LastCall == recentCalls[Len(recentCalls)]

\* the update call just issued presents the hash of the fetch issued right
\* before it, for the same path and branch, in the same attempt of the same
\* entry; that fetch is the latest one for the path
FreshHash ==
    (recentCalls # <<>> /\ LastCall.op = "update_file") =>
        /\ Len(recentCalls) = 2
        /\ recentCalls[1].op = "get_contents"
        /\ recentCalls[1].path = LastCall.path
        /\ recentCalls[1].branch = LastCall.branch
        /\ recentCalls[1].idx = LastCall.idx
        /\ recentCalls[1].attempt = LastCall.attempt
        /\ LastCall.sha = FetchedSha(LastCall.path, fetchCalls[LastCall.path])

\* C19: every update call of a push presents the hash returned by the fetch
\* issued immediately before it for the same path and branch in the same
\* attempt, never a hash of an earlier attempt; and every fetch, update and
\* create call of the push targets the requested branch.
C19_FreshHashOnRequestedBranch ==
    tool = "push_project" =>
        /\ FreshHash
        /\ \A i \in 1..Len(recentCalls) : recentCalls[i].branch = req.branch

\* the part of C19 about the hash, in both variants
C19_FreshHash == tool = "push_project" => FreshHash

\* C19 in the main variant alone
C19_Main == variant = "main" => C19_FreshHashOnRequestedBranch

\* an update in a second attempt of an entry, after a fetch of that attempt
C19_Refetched ==
    /\ recentCalls # <<>> /\ LastCall.op = "update_file"
    /\ LastCall.attempt >= 1
    /\ LastCall.sha = FetchedSha(LastCall.path, 2)

\* the entries in the order in which the loop takes them
EntryOrder ==
    IF variant = "main" THEN files_to_upload
    ELSE [k \in 1..Len(project) |-> project[k].parts]

\* a collaborator call for the current entry is about to be issued
CallPending == pc \in {"fetch", "update", "create", "fx_fetch", "fx_update", "fx_create"}

\* C20: in a push, an entry is recorded as uploaded at most once; once its
\* create or update call has succeeded no further call is issued for it;
\* and the entries are taken one at a time in upload-list order: calls are
\* issued for the current entry only, never for a later entry before the
\* current one is finished, and never again for an earlier one.
C20_UploadedOnceInOrder ==
    tool = "push_project" =>
        /\ \A p \in AllPaths : CountSucceeded(p) <= 1
        /\ CallPending => CountSucceeded(EntryOrder[idx]) = 0
        /\ \A j \in 1..Len(EntryOrder) : j > idx => FileCallCount(EntryOrder[j]) = 0
        /\ \A i \in 1..Len(recentCalls) :
              /\ recentCalls[i].idx <= idx
              /\ recentCalls[i].path = EntryOrder[recentCalls[i].idx]
        /\ Len(recentCalls) = 2 => recentCalls[1].idx <= recentCalls[2].idx

\* the first entry was uploaded and a call has been issued for the second
C20_Witness ==
    /\ tool = "push_project"
    /\ Len(EntryOrder) >= 2
    /\ CountSucceeded(EntryOrder[1]) = 1
    /\ FileCallCount(EntryOrder[2]) >= 1
    /\ idx = 2

(***************************************************************************)
(* The update_file rule and the update_file_from_local rule                *)
(***************************************************************************)
\* the positions of the returned calls named n
ReturnedAt(n) == {i \in 1..Len(tool_calls) : tool_calls[i].name = n}

\* the text of a "content from <local path>" clause, the path bare or quoted
ClauseTexts(path) ==
    {<<"c","o","n","t","e","n","t"," ","f","r","o","m"," ">> \o q \o path \o q : q \in {<<>>, <<"'">>, <<"\"">>}}

\* every prompt the update-from-local pattern matches is matched by the
\* update_file pattern, and every returned update_file_from_local call has
\* an update_file call before it
C21_UpdateFilePrecedes ==
    ExtractDone =>
        LET folded == LowerAll(Truncate(prompt))
        IN /\ Search(<<update_local_pattern>>, 4, folded).ok
                => Search(<<update_file_pattern>>, 3, folded).ok
           /\ \A i \in ReturnedAt("update_file_from_local") :
                \E j \in ReturnedAt("update_file") : j < i

\* the update_file call and the update_file_from_local call of one result
\* name the same file_path and repo_name
C21_SameTarget ==
    ExtractDone =>
        \A i \in ReturnedAt("update_file_from_local") :
            \A j \in ReturnedAt("update_file") :
                /\ tool_calls[j].inputs.file_path = tool_calls[i].inputs.file_path
                /\ tool_calls[j].inputs.repo_name = tool_calls[i].inputs.repo_name

\* the content of the update_file call is the text of the "content from
\* <local path>" clause of the update_file_from_local call
C21_ContentIsClause ==
    ExtractDone =>
        \A i \in ReturnedAt("update_file_from_local") :
            \A j \in ReturnedAt("update_file") :
                tool_calls[j].inputs.content
                    \in ClauseTexts(tool_calls[i].inputs.local_file_path)

\* C21: whenever the extractor returns an update_file_from_local call it
\* also returns, before it, an update_file call with the same file_path and
\* repo_name whose content is the text of the "content from <local path>"
\* clause, because every prompt matching the update-from-local pattern also
\* matches the update_file pattern.
C21_UpdateFileAccompaniesLocal ==
    ExtractDone =>
        LET folded == LowerAll(Truncate(prompt))
        IN /\ Search(<<update_local_pattern>>, 4, folded).ok
                => Search(<<update_file_pattern>>, 3, folded).ok
           /\ \A i \in ReturnedAt("update_file_from_local") :
                \E j \in ReturnedAt("update_file") :
                    /\ j < i
                    /\ tool_calls[j].inputs.file_path = tool_calls[i].inputs.file_path
                    /\ tool_calls[j].inputs.repo_name = tool_calls[i].inputs.repo_name
                    /\ tool_calls[j].inputs.content
                          \in ClauseTexts(tool_calls[i].inputs.local_file_path)

\* a result in which the two calls agree on the target and the content is
\* the clause: the quoted prompt without a commit message
C21_AgreeingCase ==
    /\ ExtractDone
    /\ ReturnedAt("update_file_from_local") # {}
    /\ C21_UpdateFileAccompaniesLocal

\* a result in which the two calls name different repositories
C21_DifferentRepository ==
    /\ ExtractDone
    /\ \E i \in ReturnedAt("update_file_from_local") :
          \E j \in ReturnedAt("update_file") :
              /\ tool_calls[j].inputs.file_path = tool_calls[i].inputs.file_path
              /\ tool_calls[j].inputs.repo_name # tool_calls[i].inputs.repo_name

====
